---- MODULE Spec2Model ----
(***************************************************************************)
(* Movement phase state machine, repetition counter and diagnostics engine *)
(* (RepAnalyzer) of gyatt_form.                                             *)
(*                                                                         *)
(* Units: angles are whole degrees, times are whole milliseconds (2.0 s =  *)
(* 2000), form scores are whole points and an average form score is kept   *)
(* in hundredths of a point (60.0 = 6000), as are an attempt's quality     *)
(* score and the summary's success rate.                                   *)
(***************************************************************************)
EXTENDS Integers, Sequences, FiniteSets, TLC

\* ---------------------------------------------------------------- bounds
\* operations per session in the phase-machine specifications
MaxSmCalls == 6
\* operations per session in the counter specification
MaxCalls == 10
\* inputs per session that leave the nominal stream (counter, pipeline)
MaxDevs == 2
\* operations per session in the long-running specifications
LongLen == 53
\* inputs per long-running session that leave the nominal stream, all of
\* them within the first DevWindow operations
MaxLongDevs == 1
DevWindow == 6
\* the clock at which a diagnostics session takes its last call, ms
MaxSessionTime == 100000
\* frames a resting session spends at the top before its push-ups
RestFrames == 30

\* ------------------------------------------------------------ enumeration
READY == "ready"
DESCENDING == "descending"
BOTTOM == "bottom"
ASCENDING == "ascending"
TOP == "top"
MovementState == {READY, DESCENDING, BOTTOM, ASCENDING, TOP}

\* Python's None for an optional timestamp, and for an absent pose.
None == -1

\* ------------------------------------------------------------- the inputs
\* elbow angles offered to the phase machine: one or two per band
SmAngles == {0, 95, 103, 125, 128, 147, 152}
\* the samples of an oscillation around the top cutoff
BandAngles == 148..152
\* the sessions whose samples stay within one window five values wide,
\* named by the lowest value
WindowStreams == {"window_96", "window_101", "window_120", "window_141",
                  "window_143", "window_146", "window_148"}
\* angles at and next to every cutoff, and mid-band angles 3 and 4 apart
CandAngles == {99, 100, 101, 104, 105, 106, 120, 123, 124, 127,
               144, 145, 146, 149, 150, 151}
\* frame intervals of a session, in ms
DtSet == {125, 500, 2500}
\* form scores handed to the counter
ScoreSet == {50, 100}
\* the angle stream of the end-to-end scenario, one sample per frame
E2EAngles == <<178, 170, 130, 95, 88, 92, 130, 170, 179>>
\* frame intervals of the end-to-end scenario, in ms
E2EDtSet == {300, 400}
\* what a frame that leaves the scenario may carry instead: an angle (0 when
\* no elbow is usable) or no pose at all (None)
PipePoses == {None, 0, 97, 120, 150, 165}
\* the confidence (percent) and the number of visible keypoints of a
\* detected pose
PoseConfidence == 90
PoseKeypoints == 12
\* frame intervals of a diagnostics session, in ms: fast enough to log more
\* than 50 phases within 12 s, or to log more than 20 within 15 s, or slow
\* enough to pass 15 s in a few calls
RaDtSet == {125, 500, 4000, 8000}
\* the nominal phase streams of a diagnostics session
RaStreams == {"cycle", "settle", "stuck", "hold"}
\* the angle stream of a long pipeline session, repeated: one push-up every
\* four frames
CycleAngles == <<170, 130, 95, 130>>
\* frame intervals of a long pipeline session, in ms
LongDtSet == {125, 500}
\* a push-up that stops 3 degrees above the bottom cutoff, and one that
\* comes back up to 3 degrees below the top cutoff
ShallowAngles == <<170, 130, 103, 130>>
ShortAngles == <<147, 130, 95, 130>>
\* the streams of a pipeline session that tests how deep a push-up must go
DepthStreams == {"cycle_angles", "shallow_bottom", "short_of_top"}
\* the streams of a long pipeline session
LongStreams == {"cycle_angles", "rest_at_top"}
\* elbow angle that accompanies a phase handed directly to the counter
AngleOf(phase) ==
    CASE phase = READY -> 160
      [] phase = DESCENDING -> 130
      [] phase = BOTTOM -> 90
      [] phase = ASCENDING -> 131
      [] phase = TOP -> 170

VARIABLES
    state_machine,   \* the MovementStateMachine object
    rep_counter,     \* the RepCounter object
    now,             \* the clock read by time.time(), ms
    frame_dt,        \* the session's frame interval, ms
    base_score,      \* the form score the session normally reports
    calls,           \* operations performed in this session
    devs,            \* inputs so far that left the nominal stream
    op,              \* the operation performed last, with its inputs
    fed,             \* the samples handed to the counter since it was
                     \* constructed or reset, in order
    ret_state,       \* what the last update_state returned
    ret_rep,         \* what the last RepCounter.update returned
    rep_data,        \* the record built by the last RepCounter.update, if any
    rep_analyzer,    \* the RepAnalyzer object
    stream,          \* the nominal input stream of the session
    logged,          \* the samples handed to log_state_transition, in order
    fresh_machine    \* a machine constructed when state_machine was last
                     \* constructed or reset, and given the same samples

vars == <<state_machine, rep_counter, now, frame_dt, base_score, calls, devs,
          op, fed, ret_state, ret_rep, rep_data, rep_analyzer, stream, logged,
          fresh_machine>>

\* The record kept in op; the fields an operation does not take stay None.
Call(name, pose, phase, score, t) ==
    [name |-> name, pose |-> pose, phase |-> phase, score |-> score, t |-> t]
NoPhase == "none"

\* ============================================================ utilities
\* a bounded buffer that turns the newest entry away once it is full
DequeAppend_keep_oldest(q, x, maxlen) ==
    IF Len(q) >= maxlen THEN q ELSE Append(q, x)

\* collections.deque(maxlen=n).append
DequeAppend(q, x, maxlen) ==
    IF Len(q) >= maxlen THEN Append(Tail(q), x) ELSE Append(q, x)

RECURSIVE SumSeq(_)
SumSeq(s) == IF s = <<>> THEN 0 ELSE s[1] + SumSeq(Tail(s))

SeqSet(s) == {s[i] : i \in 1..Len(s)}

\* ================================================= MovementStateMachine
top_threshold == 150
bottom_threshold == 100
movement_threshold == 3
min_state_frames == 1
transition_hysteresis == 5
state_history_maxlen == 10
angle_history_maxlen == 5

SmInit(t) ==
    [current_state |-> READY,
     state_start_time |-> t,
     state_frame_count |-> 0,
     state_history |-> <<>>,
     angle_history |-> <<>>]

\* the candidate phase with the cutoffs never widened
determine_state_no_hysteresis(self, elbow_angle) ==
    LET h == self.angle_history
    IN  IF elbow_angle >= top_threshold THEN TOP
        ELSE IF elbow_angle <= bottom_threshold THEN BOTTOM
        ELSE IF Len(h) >= 2
             THEN LET angle_trend == h[Len(h)] - h[Len(h) - 1]
                  IN  IF angle_trend < -movement_threshold THEN DESCENDING
                      ELSE IF angle_trend > movement_threshold THEN ASCENDING
                      ELSE IF self.current_state \in {DESCENDING, ASCENDING}
                           THEN self.current_state
                           ELSE READY
             ELSE READY

\* the candidate phase with the bottom cutoff raised in every phase
determine_state_from_angle_bottom_raised(self, elbow_angle) ==
    LET top_thresh ==
            IF self.current_state \in {TOP, READY}
            THEN top_threshold - transition_hysteresis
            ELSE top_threshold
        bottom_thresh == bottom_threshold + transition_hysteresis
        h == self.angle_history
    IN  IF elbow_angle >= top_thresh THEN TOP
        ELSE IF elbow_angle <= bottom_thresh THEN BOTTOM
        ELSE IF Len(h) >= 2
             THEN LET angle_trend == h[Len(h)] - h[Len(h) - 1]
                  IN  IF angle_trend < -movement_threshold THEN DESCENDING
                      ELSE IF angle_trend > movement_threshold THEN ASCENDING
                      ELSE IF self.current_state \in {DESCENDING, ASCENDING}
                           THEN self.current_state
                           ELSE READY
             ELSE READY

\* the candidate phase with the top cutoff lowered in every phase
determine_state_from_angle_top_lowered(self, elbow_angle) ==
    LET top_thresh == top_threshold - transition_hysteresis
        bottom_thresh ==
            IF self.current_state = BOTTOM
            THEN bottom_threshold + transition_hysteresis
            ELSE bottom_threshold
        h == self.angle_history
    IN  IF elbow_angle >= top_thresh THEN TOP
        ELSE IF elbow_angle <= bottom_thresh THEN BOTTOM
        ELSE IF Len(h) >= 2
             THEN LET angle_trend == h[Len(h)] - h[Len(h) - 1]
                  IN  IF angle_trend < -movement_threshold THEN DESCENDING
                      ELSE IF angle_trend > movement_threshold THEN ASCENDING
                      ELSE IF self.current_state \in {DESCENDING, ASCENDING}
                           THEN self.current_state
                           ELSE READY
             ELSE READY

\* the candidate phase with a trend of exactly the movement threshold taken
\* for movement
determine_state_from_angle_weak_trend(self, elbow_angle) ==
    LET top_thresh ==
            IF self.current_state \in {TOP, READY}
            THEN top_threshold - transition_hysteresis
            ELSE top_threshold
        bottom_thresh ==
            IF self.current_state = BOTTOM
            THEN bottom_threshold + transition_hysteresis
            ELSE bottom_threshold
        h == self.angle_history
    IN  IF elbow_angle >= top_thresh THEN TOP
        ELSE IF elbow_angle <= bottom_thresh THEN BOTTOM
        ELSE IF Len(h) >= 2
             THEN LET angle_trend == h[Len(h)] - h[Len(h) - 1]
                  IN  IF angle_trend <= -movement_threshold THEN DESCENDING
                      ELSE IF angle_trend >= movement_threshold THEN ASCENDING
                      ELSE IF self.current_state \in {DESCENDING, ASCENDING}
                           THEN self.current_state
                           ELSE READY
             ELSE READY

determine_state_from_angle(self, elbow_angle) ==
    LET top_thresh ==
            IF self.current_state \in {TOP, READY}
            THEN top_threshold - transition_hysteresis
            ELSE top_threshold
        bottom_thresh ==
            IF self.current_state = BOTTOM
            THEN bottom_threshold + transition_hysteresis
            ELSE bottom_threshold
        h == self.angle_history
    IN  IF elbow_angle >= top_thresh THEN TOP
        ELSE IF elbow_angle <= bottom_thresh THEN BOTTOM
        ELSE IF Len(h) >= 2
             THEN LET angle_trend == h[Len(h)] - h[Len(h) - 1]
                  IN  IF angle_trend < -movement_threshold THEN DESCENDING
                      ELSE IF angle_trend > movement_threshold THEN ASCENDING
                      ELSE IF self.current_state \in {DESCENDING, ASCENDING}
                           THEN self.current_state
                           ELSE READY
             ELSE READY

valid_transitions ==
    [s \in MovementState |->
        CASE s = READY -> {DESCENDING, TOP}
          [] s = TOP -> {DESCENDING, READY}
          [] s = DESCENDING -> {BOTTOM, ASCENDING}
          [] s = BOTTOM -> {ASCENDING, DESCENDING}
          [] s = ASCENDING -> {TOP, DESCENDING}]

\* the table with the jump from DESCENDING to TOP let through
is_valid_transition_descending_to_top(from_state, to_state) ==
    \/ to_state \in valid_transitions[from_state]
    \/ (from_state = DESCENDING /\ to_state = TOP)

\* the table with one entry too many (READY may jump to BOTTOM)
is_valid_transition_loose(from_state, to_state) ==
    \/ to_state \in valid_transitions[from_state]
    \/ (from_state = READY /\ to_state = BOTTOM)

is_valid_transition(from_state, to_state) ==
    to_state \in valid_transitions[from_state]

\* should_transition_to_state without the minimum-dwell test
should_transition_to_state_no_dwell(self, new_state) ==
    IF new_state = self.current_state THEN FALSE
    ELSE is_valid_transition(self.current_state, new_state)

should_transition_to_state(self, new_state) ==
    IF new_state = self.current_state THEN FALSE
    ELSE IF self.state_frame_count < min_state_frames THEN FALSE
    ELSE is_valid_transition(self.current_state, new_state)

transition_to_state(self, new_state, t) ==
    [self EXCEPT !.current_state = new_state,
                 !.state_start_time = t,
                 !.state_frame_count = 0,
                 !.state_history =
                     DequeAppend(@, <<new_state, t>>, state_history_maxlen)]

\* update_state without the test for the no-detection angle
update_state_no_sentinel(self, pose_data, t) ==
    IF pose_data = None THEN self
    ELSE LET s1 == [self EXCEPT !.angle_history =
                        DequeAppend(@, pose_data, angle_history_maxlen)]
             new_state == determine_state_from_angle(s1, pose_data)
             s2 == IF should_transition_to_state(s1, new_state)
                      /\ new_state # s1.current_state
                   THEN transition_to_state(s1, new_state, t)
                   ELSE s1
         IN  [s2 EXCEPT !.state_frame_count = @ + 1]

\* pose_data is None, or the value calculate_average_elbow_angle gives for it
\* (0 when neither elbow is usable); t is the clock during the call.
update_state(self, pose_data, t) ==
    IF pose_data = None THEN self
    ELSE IF pose_data = 0 THEN self
    ELSE LET s1 == [self EXCEPT !.angle_history =
                        DequeAppend(@, pose_data, angle_history_maxlen)]
             new_state == determine_state_from_angle(s1, pose_data)
             s2 == IF should_transition_to_state(s1, new_state)
                      /\ new_state # s1.current_state
                   THEN transition_to_state(s1, new_state, t)
                   ELSE s1
         IN  [s2 EXCEPT !.state_frame_count = @ + 1]

\* reset_state that leaves the frame count of the current phase as it is
reset_state_keep_frames(self, t) ==
    [self EXCEPT !.current_state = READY,
                 !.state_start_time = t,
                 !.state_history = <<>>,
                 !.angle_history = <<>>]

reset_state(self, t) ==
    [self EXCEPT !.current_state = READY,
                 !.state_start_time = t,
                 !.state_frame_count = 0,
                 !.state_history = <<>>,
                 !.angle_history = <<>>]

\* =========================================================== RepCounter
required_sequence == <<TOP, DESCENDING, BOTTOM, ASCENDING, TOP>>
min_duration == 2000
max_duration == 10000
min_form_score == 60

\* is_valid with the lower duration limit forgotten
is_valid_no_min(rep) ==
    LET required_states == {TOP, DESCENDING, BOTTOM, ASCENDING}
        has_complete_cycle == required_states \subseteq SeqSet(rep.state_sequence)
        reasonable_duration == rep.duration <= max_duration
        good_form == Len(rep.form_scores) = 0
                     \/ rep.average_form_score >= min_form_score * 100
    IN  has_complete_cycle /\ reasonable_duration /\ good_form

\* is_valid with the upper duration limit forgotten
is_valid_no_max(rep) ==
    LET required_states == {TOP, DESCENDING, BOTTOM, ASCENDING}
        has_complete_cycle == required_states \subseteq SeqSet(rep.state_sequence)
        reasonable_duration == min_duration <= rep.duration
        good_form == Len(rep.form_scores) = 0
                     \/ rep.average_form_score >= min_form_score * 100
    IN  has_complete_cycle /\ reasonable_duration /\ good_form

\* RepetitionData.is_valid
is_valid(rep) ==
    LET required_states == {TOP, DESCENDING, BOTTOM, ASCENDING}
        has_complete_cycle == required_states \subseteq SeqSet(rep.state_sequence)
        reasonable_duration ==
            min_duration <= rep.duration /\ rep.duration <= max_duration
        good_form == Len(rep.form_scores) = 0
                     \/ rep.average_form_score >= min_form_score * 100
    IN  has_complete_cycle /\ reasonable_duration /\ good_form

\* _reset_current_rep that leaves the window's start time set
_reset_current_rep_keep_start(self) ==
    [self EXCEPT !.sequence_index = 0,
                 !.current_rep_states = <<>>,
                 !.current_rep_angles = <<>>,
                 !.current_rep_scores = <<>>]

\* _reset_current_rep that leaves sequence_index where it was
_reset_current_rep_keep_index(self) ==
    [self EXCEPT !.current_rep_start = None,
                 !.current_rep_states = <<>>,
                 !.current_rep_angles = <<>>,
                 !.current_rep_scores = <<>>]

\* _reset_current_rep that forgets to clear the score buffer
_reset_current_rep_keep_scores(self) ==
    [self EXCEPT !.sequence_index = 0,
                 !.current_rep_start = None,
                 !.current_rep_states = <<>>,
                 !.current_rep_angles = <<>>]

_reset_current_rep(self) ==
    [self EXCEPT !.sequence_index = 0,
                 !.current_rep_start = None,
                 !.current_rep_states = <<>>,
                 !.current_rep_angles = <<>>,
                 !.current_rep_scores = <<>>]

reset_counter(self) ==
    _reset_current_rep([self EXCEPT !.repetitions = <<>>,
                                    !.total_reps = 0,
                                    !.valid_reps = 0])

RcInit ==
    reset_counter([sequence_index |-> 0,
                   current_rep_start |-> None,
                   current_rep_states |-> <<>>,
                   current_rep_angles |-> <<>>,
                   current_rep_scores |-> <<>>,
                   repetitions |-> <<>>,
                   total_reps |-> 0,
                   valid_reps |-> 0])

\* sum(scores) / len(scores), in hundredths of a point
average_of(scores) ==
    IF Len(scores) > 0 THEN (SumSeq(scores) * 100) \div Len(scores)
    ELSE 100 * 100

\* The record built without the sample that closed the cycle.
RepetitionData_without_closing_sample(self, timestamp) ==
    [rep_number |-> Len(self.repetitions) + 1,
     start_time |-> self.current_rep_start,
     end_time |-> timestamp,
     form_scores |-> SubSeq(self.current_rep_scores, 1,
                            Len(self.current_rep_scores) - 1),
     state_sequence |-> SubSeq(self.current_rep_states, 1,
                               Len(self.current_rep_states) - 1),
     average_form_score |-> average_of(self.current_rep_scores),
     duration |-> timestamp - self.current_rep_start,
     elbow_angles |-> SubSeq(self.current_rep_angles, 1,
                             Len(self.current_rep_angles) - 1)]

\* The record _complete_repetition builds from the in-progress buffers.
RepetitionData(self, timestamp) ==
    [rep_number |-> Len(self.repetitions) + 1,
     start_time |-> self.current_rep_start,
     end_time |-> timestamp,
     form_scores |-> self.current_rep_scores,
     state_sequence |-> self.current_rep_states,
     average_form_score |-> average_of(self.current_rep_scores),
     duration |-> timestamp - self.current_rep_start,
     elbow_angles |-> self.current_rep_angles]

\* _complete_repetition that takes the closing Top for the opening Top of the
\* next cycle
_complete_repetition_reopens(self, timestamp) ==
    IF self.current_rep_start = None
    THEN [self |-> _reset_current_rep(self), ret |-> FALSE, rep_data |-> <<>>]
    ELSE LET data == RepetitionData(self, timestamp)
             s1 == IF is_valid(data)
                   THEN [self EXCEPT
                            !.repetitions = Append(@, data),
                            !.total_reps = @ + 1,
                            !.valid_reps = IF is_valid(data) THEN @ + 1 ELSE @]
                   ELSE self
         IN  [self |-> [_reset_current_rep(s1) EXCEPT
                           !.sequence_index = 1,
                           !.current_rep_start = timestamp],
              ret |-> is_valid(data),
              rep_data |-> <<data>>]

\* _complete_repetition that reports every closed cycle as a repetition
_complete_repetition_always_true(self, timestamp) ==
    IF self.current_rep_start = None
    THEN [self |-> _reset_current_rep(self), ret |-> FALSE, rep_data |-> <<>>]
    ELSE LET data == RepetitionData(self, timestamp)
             s1 == IF is_valid(data)
                   THEN [self EXCEPT
                            !.repetitions = Append(@, data),
                            !.total_reps = @ + 1,
                            !.valid_reps = IF is_valid(data) THEN @ + 1 ELSE @]
                   ELSE self
         IN  [self |-> _reset_current_rep(s1),
              ret |-> TRUE,
              rep_data |-> <<data>>]

\* _complete_repetition that resets the in-progress state only for a valid
\* repetition
_complete_repetition_reset_if_valid(self, timestamp) ==
    IF self.current_rep_start = None
    THEN [self |-> _reset_current_rep(self), ret |-> FALSE, rep_data |-> <<>>]
    ELSE LET data == RepetitionData(self, timestamp)
         IN  IF is_valid(data)
             THEN [self |-> _reset_current_rep(
                                [self EXCEPT
                                    !.repetitions = Append(@, data),
                                    !.total_reps = @ + 1,
                                    !.valid_reps = @ + 1]),
                   ret |-> TRUE,
                   rep_data |-> <<data>>]
             ELSE [self |-> self, ret |-> FALSE, rep_data |-> <<data>>]

\* The result of a call: the object afterwards, the value returned and the
\* RepetitionData the call built (<<>> when it built none).
_complete_repetition(self, timestamp) ==
    IF self.current_rep_start = None
    THEN [self |-> _reset_current_rep(self), ret |-> FALSE, rep_data |-> <<>>]
    ELSE LET data == RepetitionData(self, timestamp)
             s1 == IF is_valid(data)
                   THEN [self EXCEPT
                            !.repetitions = Append(@, data),
                            !.total_reps = @ + 1,
                            !.valid_reps = IF is_valid(data) THEN @ + 1 ELSE @]
                   ELSE self
         IN  [self |-> _reset_current_rep(s1),
              ret |-> is_valid(data),
              rep_data |-> <<data>>]

\* update whose false-start branch re-stamps the window but keeps the buffers
update_false_start_keeps_buffers(self, current_state, elbow_angle, form_score, timestamp) ==
    LET s1 == [self EXCEPT !.current_rep_states = Append(@, current_state),
                           !.current_rep_angles = Append(@, elbow_angle),
                           !.current_rep_scores = Append(@, form_score)]
        expected_state == required_sequence[s1.sequence_index + 1]
    IN  IF current_state = expected_state
        THEN LET s2 == [s1 EXCEPT !.sequence_index = @ + 1]
                 s3 == IF s2.sequence_index = 1 /\ s2.current_rep_start = None
                       THEN [s2 EXCEPT !.current_rep_start = timestamp] ELSE s2
             IN  IF s3.sequence_index >= Len(required_sequence)
                 THEN _complete_repetition(s3, timestamp)
                 ELSE [self |-> s3, ret |-> FALSE, rep_data |-> <<>>]
        ELSE IF s1.sequence_index > 0 /\ current_state = required_sequence[1]
        THEN [self |-> [s1 EXCEPT !.sequence_index = 1,
                                  !.current_rep_start = timestamp],
              ret |-> FALSE, rep_data |-> <<>>]
        ELSE [self |-> s1, ret |-> FALSE, rep_data |-> <<>>]

\* update that abandons the rep window when a sample that does not advance
\* it arrives more than max_duration after the window opened
update_mismatch_times_out(self, current_state, elbow_angle, form_score, timestamp) ==
    LET s1 == [self EXCEPT !.current_rep_states = Append(@, current_state),
                           !.current_rep_angles = Append(@, elbow_angle),
                           !.current_rep_scores = Append(@, form_score)]
        expected_state == required_sequence[s1.sequence_index + 1]
    IN  IF current_state = expected_state
        THEN LET s2 == [s1 EXCEPT !.sequence_index = @ + 1]
                 s3 == IF s2.sequence_index = 1 /\ s2.current_rep_start = None
                       THEN [s2 EXCEPT !.current_rep_start = timestamp] ELSE s2
             IN  IF s3.sequence_index >= Len(required_sequence)
                 THEN _complete_repetition(s3, timestamp)
                 ELSE [self |-> s3, ret |-> FALSE, rep_data |-> <<>>]
        ELSE IF s1.sequence_index > 0
        THEN IF current_state = required_sequence[1]
             THEN [self |-> [_reset_current_rep(s1) EXCEPT !.sequence_index = 1,
                                !.current_rep_start = timestamp],
                   ret |-> FALSE, rep_data |-> <<>>]
             ELSE IF timestamp - s1.current_rep_start > max_duration
             THEN [self |-> _reset_current_rep(s1), ret |-> FALSE,
                   rep_data |-> <<>>]
             ELSE [self |-> s1, ret |-> FALSE, rep_data |-> <<>>]
        ELSE [self |-> s1, ret |-> FALSE, rep_data |-> <<>>]

\* update whose false-start branch clears the buffers but leaves the window's
\* start time where the first Top put it
update_false_start_keeps_start(self, current_state, elbow_angle, form_score, timestamp) ==
    LET s1 == [self EXCEPT !.current_rep_states = Append(@, current_state),
                           !.current_rep_angles = Append(@, elbow_angle),
                           !.current_rep_scores = Append(@, form_score)]
        expected_state == required_sequence[s1.sequence_index + 1]
    IN  IF current_state = expected_state
        THEN LET s2 == [s1 EXCEPT !.sequence_index = @ + 1]
                 s3 == IF s2.sequence_index = 1 /\ s2.current_rep_start = None
                       THEN [s2 EXCEPT !.current_rep_start = timestamp] ELSE s2
             IN  IF s3.sequence_index >= Len(required_sequence)
                 THEN _complete_repetition(s3, timestamp)
                 ELSE [self |-> s3, ret |-> FALSE, rep_data |-> <<>>]
        ELSE IF s1.sequence_index > 0 /\ current_state = required_sequence[1]
        THEN [self |-> [_reset_current_rep(s1) EXCEPT !.sequence_index = 1,
                           !.current_rep_start = self.current_rep_start],
              ret |-> FALSE, rep_data |-> <<>>]
        ELSE [self |-> s1, ret |-> FALSE, rep_data |-> <<>>]

update(self, current_state, elbow_angle, form_score, timestamp) ==
    LET s1 == [self EXCEPT
                  !.current_rep_states = Append(@, current_state),
                  !.current_rep_angles = Append(@, elbow_angle),
                  !.current_rep_scores = Append(@, form_score)]
        expected_state == required_sequence[s1.sequence_index + 1]
    IN  IF current_state = expected_state
        THEN LET s2 == [s1 EXCEPT !.sequence_index = @ + 1]
                 s3 == IF s2.sequence_index = 1 /\ s2.current_rep_start = None
                       THEN [s2 EXCEPT !.current_rep_start = timestamp]
                       ELSE s2
             IN  IF s3.sequence_index >= Len(required_sequence)
                 THEN _complete_repetition(s3, timestamp)
                 ELSE [self |-> s3, ret |-> FALSE, rep_data |-> <<>>]
        ELSE IF s1.sequence_index > 0
        THEN IF current_state = required_sequence[1]
             THEN [self |-> [_reset_current_rep(s1) EXCEPT
                                !.sequence_index = 1,
                                !.current_rep_start = timestamp],
                   ret |-> FALSE, rep_data |-> <<>>]
             ELSE [self |-> s1, ret |-> FALSE, rep_data |-> <<>>]
        ELSE [self |-> s1, ret |-> FALSE, rep_data |-> <<>>]

get_rep_count(self) == self.total_reps
get_valid_rep_count(self) == self.valid_reps

\* Integer square root (rounded down), by bisection between lo and hi.
RECURSIVE SqrtBetween(_, _, _)
SqrtBetween(n, lo, hi) ==
    IF lo >= hi THEN lo
    ELSE LET mid == (lo + hi + 1) \div 2
         IN  IF mid * mid <= n THEN SqrtBetween(n, mid, hi)
             ELSE SqrtBetween(n, lo, mid - 1)

RECURSIVE SumSqDev(_, _)
SumSqDev(s, mean) ==
    IF s = <<>> THEN 0
    ELSE (s[1] - mean) * (s[1] - mean) + SumSqDev(Tail(s), mean)

\* statistics.stdev, the sample standard deviation, in the unit of the data
\* and rounded down to a whole unit (the mean is rounded down as well)
stdev(data) ==
    LET mean == SumSeq(data) \div Len(data)
        variance == SumSqDev(data, mean) \div (Len(data) - 1)
    IN  SqrtBetween(variance, 0, 46340)

Max(a, b) == IF a >= b THEN a ELSE b

\* get_performance_stats whose single-repetition branch reports 0, like the
\* empty one
get_performance_stats_single_zero(self) ==
    IF Len(self.repetitions) = 0
    THEN [total_reps |-> 0, valid_reps |-> 0, consistency_score |-> 0]
    ELSE LET durations ==
                 [i \in 1..Len(self.repetitions) |-> self.repetitions[i].duration]
             form_scores ==
                 [i \in 1..Len(self.repetitions) |->
                     self.repetitions[i].average_form_score]
             consistency_score ==
                 IF Len(durations) > 1
                 THEN Max(0, 100 * 100
                             - (stdev(durations) + stdev(form_scores) \div 10))
                 ELSE 0
         IN  [total_reps |-> self.total_reps,
              valid_reps |-> self.valid_reps,
              consistency_score |-> consistency_score]

\* The counts and the consistency score of get_performance_stats; the score
\* is in hundredths of a point. A duration deviation of d ms costs
\* (d / 1000) * 10 points, that is d hundredths; a form-score deviation of f
\* hundredths costs f / 10 hundredths.
get_performance_stats(self) ==
    IF Len(self.repetitions) = 0
    THEN [total_reps |-> 0, valid_reps |-> 0, consistency_score |-> 0]
    ELSE LET durations ==
                 [i \in 1..Len(self.repetitions) |-> self.repetitions[i].duration]
             form_scores ==
                 [i \in 1..Len(self.repetitions) |->
                     self.repetitions[i].average_form_score]
             consistency_score ==
                 IF Len(durations) > 1
                 THEN Max(0, 100 * 100
                             - (stdev(durations) + stdev(form_scores) \div 10))
                 ELSE 100 * 100
         IN  [total_reps |-> self.total_reps,
              valid_reps |-> self.valid_reps,
              consistency_score |-> consistency_score]

\* ============================================================ RepAnalyzer
\* Phases are kept by the analyzer as upper-case strings
\* (new_state.value.upper()).
Upper(phase) ==
    CASE phase = READY -> "READY"
      [] phase = DESCENDING -> "DESCENDING"
      [] phase = BOTTOM -> "BOTTOM"
      [] phase = ASCENDING -> "ASCENDING"
      [] phase = TOP -> "TOP"

expected_sequence == <<"DESCENDING", "BOTTOM", "ASCENDING", "TOP">>
valid_start_states == <<"READY", "TOP">>
state_buffer_maxlen == 20
angle_buffer_maxlen == 50
\* an attempt is failed once it is older than this, ms
max_attempt_duration == 15000
\* ... or once its state_sequence is longer than this
max_attempt_states == 50
\* a failed attempt longer than this is too_slow, ms
slow_attempt_duration == 12000
\* failure_reason of an attempt that has none (Python's None)
NoReason == "None"

CountOf(s, x) == Cardinality({i \in 1..Len(s) : s[i] = x})

MaxOf(S) == CHOOSE x \in S : \A y \in S : y <= x
MinOf(S) == CHOOSE x \in S : \A y \in S : x <= y

\* current_state is NoPhase until the first phase is logged; current_attempt
\* is <<>> when no attempt is active and <<attempt>> when one is.
RaInit(t) ==
    [session_start |-> t,
     current_state |-> NoPhase,
     last_state_change |-> t,
     state_transitions |-> <<>>,
     current_attempt |-> <<>>,
     rep_attempts |-> <<>>,
     attempt_counter |-> 0,
     state_buffer |-> <<>>,
     angle_buffer |-> <<>>]

StateTransition(timestamp, from_state, to_state, elbow_angle, confidence, keypoint_count, duration_in_state) ==
    [timestamp |-> timestamp,
     from_state |-> from_state,
     to_state |-> to_state,
     elbow_angle |-> elbow_angle,
     confidence |-> confidence,
     keypoint_count |-> keypoint_count,
     duration_in_state |-> duration_in_state]

_start_new_attempt(self, t) ==
    [self EXCEPT
        !.attempt_counter = @ + 1,
        !.current_attempt =
            <<[attempt_id |-> self.attempt_counter + 1,
               start_time |-> t,
               end_time |-> None,
               duration |-> None,
               state_sequence |-> <<>>,
               angle_sequence |-> <<>>,
               was_counted |-> FALSE,
               failure_reason |-> NoReason,
               quality_score |-> 0]>>]

\* _should_fail_attempt without the limit on the number of phases
_should_fail_attempt_no_length_limit(self, t) ==
    IF self.current_attempt = <<>> THEN FALSE
    ELSE LET attempt == self.current_attempt[1]
             duration == t - attempt.start_time
         IN  duration > max_attempt_duration

_should_fail_attempt(self, t) ==
    IF self.current_attempt = <<>> THEN FALSE
    ELSE LET attempt == self.current_attempt[1]
             duration == t - attempt.start_time
         IN  IF duration > max_attempt_duration THEN TRUE
             ELSE IF Len(attempt.state_sequence) > max_attempt_states THEN TRUE
             ELSE FALSE

\* _analyze_failure with the variety rule tested right after the length
_analyze_failure_variety_first(self) ==
    IF self.current_attempt = <<>> THEN "unknown"
    ELSE LET attempt == self.current_attempt[1]
             sequence == attempt.state_sequence
         IN  IF Len(sequence) < 4 THEN "incomplete_sequence"
             ELSE IF Cardinality(SeqSet(sequence)) < 3
                  THEN "insufficient_state_variety"
             ELSE IF "BOTTOM" \notin SeqSet(sequence)
                  THEN "never_reached_bottom"
             ELSE IF CountOf(sequence, "BOTTOM") > 3 THEN "stuck_at_bottom"
             ELSE IF "ASCENDING" \notin SeqSet(sequence) THEN "never_ascended"
             ELSE IF /\ attempt.duration # None
                     /\ attempt.duration # 0
                     /\ attempt.duration > slow_attempt_duration
                  THEN "too_slow"
             ELSE "pattern_mismatch"

\* _analyze_failure with the duration tested right after the length
_analyze_failure_slow_first(self) ==
    IF self.current_attempt = <<>> THEN "unknown"
    ELSE LET attempt == self.current_attempt[1]
             sequence == attempt.state_sequence
         IN  IF Len(sequence) < 4 THEN "incomplete_sequence"
             ELSE IF /\ attempt.duration # None
                     /\ attempt.duration # 0
                     /\ attempt.duration > slow_attempt_duration
                  THEN "too_slow"
             ELSE IF "BOTTOM" \notin SeqSet(sequence)
                  THEN "never_reached_bottom"
             ELSE IF CountOf(sequence, "BOTTOM") > 3 THEN "stuck_at_bottom"
             ELSE IF "ASCENDING" \notin SeqSet(sequence) THEN "never_ascended"
             ELSE IF Cardinality(SeqSet(sequence)) < 3
                  THEN "insufficient_state_variety"
             ELSE "pattern_mismatch"

_analyze_failure(self) ==
    IF self.current_attempt = <<>> THEN "unknown"
    ELSE LET attempt == self.current_attempt[1]
             sequence == attempt.state_sequence
         IN  IF Len(sequence) < 4 THEN "incomplete_sequence"
             ELSE IF "BOTTOM" \notin SeqSet(sequence)
                  THEN "never_reached_bottom"
             ELSE IF CountOf(sequence, "BOTTOM") > 3 THEN "stuck_at_bottom"
             ELSE IF "ASCENDING" \notin SeqSet(sequence) THEN "never_ascended"
             ELSE IF /\ attempt.duration # None
                     /\ attempt.duration # 0
                     /\ attempt.duration > slow_attempt_duration
                  THEN "too_slow"
             ELSE IF Cardinality(SeqSet(sequence)) < 3
                  THEN "insufficient_state_variety"
             ELSE "pattern_mismatch"

\* _calculate_quality_score without the final clamp
_calculate_quality_score_unclamped(self) ==
    IF self.current_attempt = <<>> THEN 0
    ELSE LET attempt == self.current_attempt[1]
             sequence == attempt.state_sequence
             angles == attempt.angle_sequence
             score0 == 100 * 100
             score1 == IF Len(sequence) < 4 THEN score0 - 50 * 100 ELSE score0
             expected_present ==
                 Cardinality({i \in 1..Len(expected_sequence) :
                                 expected_sequence[i] \in SeqSet(sequence)})
             score2 == score1 + (expected_present * 30 * 100)
                                    \div Len(expected_sequence)
             score3 == IF Len(sequence) > 20
                       THEN score2 - 100 * MinOf({30, (Len(sequence) - 20) * 2})
                       ELSE score2
         IN  IF angles # <<>>
             THEN LET angle_range == MaxOf(SeqSet(angles))
                                     - MinOf(SeqSet(angles))
                  IN  IF angle_range > 60 THEN score3 + 20 * 100
                      ELSE IF angle_range < 30 THEN score3 - 20 * 100
                      ELSE score3
             ELSE score3

\* the quality score, in hundredths of a point
_calculate_quality_score(self) ==
    IF self.current_attempt = <<>> THEN 0
    ELSE LET attempt == self.current_attempt[1]
             sequence == attempt.state_sequence
             angles == attempt.angle_sequence
             score0 == 100 * 100
             score1 == IF Len(sequence) < 4 THEN score0 - 50 * 100 ELSE score0
             expected_present ==
                 Cardinality({i \in 1..Len(expected_sequence) :
                                 expected_sequence[i] \in SeqSet(sequence)})
             score2 == score1 + (expected_present * 30 * 100)
                                    \div Len(expected_sequence)
             score3 == IF Len(sequence) > 20
                       THEN score2 - 100 * MinOf({30, (Len(sequence) - 20) * 2})
                       ELSE score2
             score4 ==
                 IF angles # <<>>
                 THEN LET angle_range == MaxOf(SeqSet(angles))
                                         - MinOf(SeqSet(angles))
                      IN  IF angle_range > 60 THEN score3 + 20 * 100
                          ELSE IF angle_range < 30 THEN score3 - 20 * 100
                          ELSE score3
                 ELSE score3
         IN  MaxOf({0, MinOf({100 * 100, score4})})

_complete_attempt(self, success, t) ==
    IF self.current_attempt = <<>> THEN self
    ELSE LET a0 == self.current_attempt[1]
             a1 == [a0 EXCEPT !.end_time = t,
                              !.duration = t - a0.start_time,
                              !.was_counted = success]
             s1 == [self EXCEPT !.current_attempt = <<a1>>]
             a2 == IF ~success
                   THEN [a1 EXCEPT !.failure_reason = _analyze_failure(s1)]
                   ELSE a1
             s2 == [self EXCEPT !.current_attempt = <<a2>>]
             a3 == [a2 EXCEPT !.quality_score = _calculate_quality_score(s2)]
         IN  [self EXCEPT !.rep_attempts = Append(@, a3),
                          !.current_attempt = <<>>]

\* _update_rep_attempt that opens no attempt on the change that counts a rep
_update_rep_attempt_counted_needs_open(self, new_state, elbow_angle, was_rep_counted, t) ==
    LET started ==
            IF /\ new_state \in SeqSet(valid_start_states)
               /\ self.current_attempt = <<>>
               /\ ~was_rep_counted
            THEN _start_new_attempt(self, t)
            ELSE self
    IN  IF started.current_attempt # <<>>
        THEN LET a == started.current_attempt[1]
                 added ==
                     [started EXCEPT !.current_attempt =
                         <<[a EXCEPT
                              !.state_sequence = Append(@, new_state),
                              !.angle_sequence = Append(@, elbow_angle)]>>]
             IN  IF was_rep_counted THEN _complete_attempt(added, TRUE, t)
                 ELSE IF _should_fail_attempt(added, t)
                      THEN _complete_attempt(added, FALSE, t)
                 ELSE added
        ELSE started

\* _update_rep_attempt with Ready as the only start phase
_update_rep_attempt_ready_only(self, new_state, elbow_angle, was_rep_counted, t) ==
    LET started ==
            IF new_state = "READY" /\ self.current_attempt = <<>>
            THEN _start_new_attempt(self, t)
            ELSE self
    IN  IF started.current_attempt # <<>>
        THEN LET a == started.current_attempt[1]
                 added ==
                     [started EXCEPT !.current_attempt =
                         <<[a EXCEPT
                              !.state_sequence = Append(@, new_state),
                              !.angle_sequence = Append(@, elbow_angle)]>>]
             IN  IF was_rep_counted THEN _complete_attempt(added, TRUE, t)
                 ELSE IF _should_fail_attempt(added, t)
                      THEN _complete_attempt(added, FALSE, t)
                 ELSE added
        ELSE started

\* _update_rep_attempt with the failure conditions tested before the counted
\* repetition
_update_rep_attempt_failure_first(self, new_state, elbow_angle, was_rep_counted, t) ==
    LET started ==
            IF /\ new_state \in SeqSet(valid_start_states)
               /\ self.current_attempt = <<>>
            THEN _start_new_attempt(self, t)
            ELSE self
    IN  IF started.current_attempt # <<>>
        THEN LET a == started.current_attempt[1]
                 added ==
                     [started EXCEPT !.current_attempt =
                         <<[a EXCEPT
                              !.state_sequence = Append(@, new_state),
                              !.angle_sequence = Append(@, elbow_angle)]>>]
             IN  IF _should_fail_attempt(added, t)
                 THEN _complete_attempt(added, FALSE, t)
                 ELSE IF was_rep_counted
                      THEN _complete_attempt(added, TRUE, t)
                 ELSE added
        ELSE started

_update_rep_attempt(self, new_state, elbow_angle, was_rep_counted, t) ==
    LET started ==
            IF /\ new_state \in SeqSet(valid_start_states)
               /\ self.current_attempt = <<>>
            THEN _start_new_attempt(self, t)
            ELSE self
    IN  IF started.current_attempt # <<>>
        THEN LET a == started.current_attempt[1]
                 added ==
                     [started EXCEPT !.current_attempt =
                         <<[a EXCEPT
                              !.state_sequence = Append(@, new_state),
                              !.angle_sequence = Append(@, elbow_angle)]>>]
             IN  IF was_rep_counted THEN _complete_attempt(added, TRUE, t)
                 ELSE IF _should_fail_attempt(added, t)
                      THEN _complete_attempt(added, FALSE, t)
                 ELSE added
        ELSE started

\* log_state_transition with the attempt tracking also run for the first
\* phase of a session
log_state_transition_track_first(self, new_state, elbow_angle, confidence, keypoint_count, was_rep_counted, t) ==
    LET state_str == Upper(new_state)
        transition ==
            StateTransition(t, self.current_state, state_str, elbow_angle,
                            confidence, keypoint_count,
                            t - self.last_state_change)
        changed ==
            IF self.current_state # state_str
            THEN LET tracked ==
                         _update_rep_attempt(
                             IF self.current_state # NoPhase
                             THEN [self EXCEPT
                                      !.state_transitions =
                                          Append(@, transition)]
                             ELSE self,
                             state_str, elbow_angle, was_rep_counted, t)
                 IN  [tracked EXCEPT !.current_state = state_str,
                                     !.last_state_change = t]
            ELSE self
    IN  [changed EXCEPT
            !.state_buffer = DequeAppend(@, state_str, state_buffer_maxlen),
            !.angle_buffer = DequeAppend(@, elbow_angle, angle_buffer_maxlen)]

\* log_state_transition with last_state_change stamped by every call
log_state_transition_restamp(self, new_state, elbow_angle, confidence, keypoint_count, was_rep_counted, t) ==
    LET state_str == Upper(new_state)
        transition ==
            StateTransition(t, self.current_state, state_str, elbow_angle,
                            confidence, keypoint_count,
                            t - self.last_state_change)
        changed ==
            IF self.current_state # state_str
            THEN LET tracked ==
                         IF self.current_state # NoPhase
                         THEN _update_rep_attempt(
                                  [self EXCEPT
                                      !.state_transitions =
                                          Append(@, transition)],
                                  state_str, elbow_angle, was_rep_counted, t)
                         ELSE self
                 IN  [tracked EXCEPT !.current_state = state_str]
            ELSE self
    IN  [changed EXCEPT
            !.last_state_change = t,
            !.state_buffer = DequeAppend(@, state_str, state_buffer_maxlen),
            !.angle_buffer = DequeAppend(@, elbow_angle, angle_buffer_maxlen)]

log_state_transition(self, new_state, elbow_angle, confidence, keypoint_count, was_rep_counted, t) ==
    LET state_str == Upper(new_state)
        transition ==
            StateTransition(t, self.current_state, state_str, elbow_angle,
                            confidence, keypoint_count,
                            t - self.last_state_change)
        changed ==
            IF self.current_state # state_str
            THEN LET tracked ==
                         IF self.current_state # NoPhase
                         THEN _update_rep_attempt(
                                  [self EXCEPT
                                      !.state_transitions =
                                          Append(@, transition)],
                                  state_str, elbow_angle, was_rep_counted, t)
                         ELSE self
                 IN  [tracked EXCEPT !.current_state = state_str,
                                     !.last_state_change = t]
            ELSE self
    IN  [changed EXCEPT
            !.state_buffer = DequeAppend(@, state_str, state_buffer_maxlen),
            !.angle_buffer = DequeAppend(@, elbow_angle, angle_buffer_maxlen)]

\* the keys of failure_counts, in the order the loop inserts them
RECURSIVE FirstOccurrences(_)
FirstOccurrences(s) ==
    IF s = <<>> THEN <<>>
    ELSE LET d == FirstOccurrences(SubSeq(s, 1, Len(s) - 1))
         IN  IF s[Len(s)] \in SeqSet(d) THEN d ELSE Append(d, s[Len(s)])

\* the failure counts left in the order the reasons first occurred
SortedByCount_unsorted(items) == items

\* sorted(items, key=count, reverse=True): stable, so equal counts keep
\* their order
RECURSIVE SortedByCount(_)
SortedByCount(items) ==
    IF items = <<>> THEN <<>>
    ELSE LET m == MaxOf({items[i].count : i \in 1..Len(items)})
             k == MinOf({i \in 1..Len(items) : items[i].count = m})
         IN  <<items[k]>>
             \o SortedByCount(SubSeq(items, 1, k - 1)
                              \o SubSeq(items, k + 1, Len(items)))

\* success_rate is kept in hundredths of a percent
_generate_recommendations(self, common_failures, angle_stats, success_rate) ==
    LET low == IF success_rate < 50 * 100
               THEN <<"SUCCESS_RATE_LOW">> ELSE <<>>
        top_failure == common_failures[1].reason
        failure ==
            IF common_failures # <<>>
            THEN IF top_failure = "never_reached_bottom"
                 THEN <<"BOTTOM_THRESHOLD">>
                 ELSE IF top_failure = "stuck_at_bottom"
                      THEN <<"MOVEMENT_SENSITIVITY">>
                 ELSE IF top_failure = "never_ascended"
                      THEN <<"STATE_SMOOTHING">>
                 ELSE IF top_failure = "too_slow" THEN <<"TIMING">>
                 ELSE <<>>
            ELSE <<>>
        range == IF angle_stats = <<>> THEN 0 ELSE angle_stats[1].range
        narrow == IF range < 60 THEN <<"ANGLE_RANGE">> ELSE <<>>
        good == IF Len(self.state_transitions) > 100 /\ success_rate > 80 * 100
                THEN <<"PERFORMANCE_GOOD">> ELSE <<>>
    IN  low \o failure \o narrow \o good

\* The summary; an entry of common_failure_patterns is the pair the code
\* formats as "reason: count", angle_statistics is <<>> for the empty dict
\* and the mean is in hundredths of a degree.
get_session_analysis(self, t) ==
    LET attempts == self.rep_attempts
        successful_reps ==
            Cardinality({i \in 1..Len(attempts) : attempts[i].was_counted})
        total_attempts == Len(attempts)
        success_rate ==
            IF total_attempts > 0
            THEN (successful_reps * 100 * 100) \div total_attempts
            ELSE 0
        failed(a) == ~a.was_counted /\ a.failure_reason # NoReason
        failed_attempts == SelectSeq(attempts, failed)
        failure_reasons ==
            [i \in 1..Len(failed_attempts) |-> failed_attempts[i].failure_reason]
        keys == FirstOccurrences(failure_reasons)
        failure_counts ==
            [i \in 1..Len(keys) |->
                [reason |-> keys[i], count |-> CountOf(failure_reasons, keys[i])]]
        common_failures == SortedByCount(failure_counts)
        all_angles == self.angle_buffer
        angle_stats ==
            IF all_angles # <<>>
            THEN <<[min |-> MinOf(SeqSet(all_angles)),
                    max |-> MaxOf(SeqSet(all_angles)),
                    mean |-> (SumSeq(all_angles) * 100) \div Len(all_angles),
                    range |-> MaxOf(SeqSet(all_angles))
                              - MinOf(SeqSet(all_angles))]>>
            ELSE <<>>
    IN  [start_time |-> self.session_start,
         end_time |-> t,
         total_transitions |-> Len(self.state_transitions),
         rep_attempts |-> total_attempts,
         successful_reps |-> successful_reps,
         success_rate |-> success_rate,
         common_failure_patterns |->
             SubSeq(common_failures, 1, MinOf({5, Len(common_failures)})),
         angle_statistics |-> angle_stats,
         recommendations |->
             _generate_recommendations(self, common_failures, angle_stats,
                                       success_rate)]

\* ======================================================== initial states
InitObjects ==
    /\ now = 0
    /\ state_machine = SmInit(0)
    /\ rep_counter = RcInit
    /\ calls = 0
    /\ devs = 0
    /\ op = Call("init", None, NoPhase, None, None)
    /\ fed = <<>>
    /\ ret_state = READY
    /\ ret_rep = FALSE
    /\ rep_data = <<>>
    /\ rep_analyzer = RaInit(0)
    /\ logged = <<>>
    /\ fresh_machine = SmInit(0)

\* ------------------------------------------- the phase machine by itself
InitSM ==
    /\ InitObjects
    /\ stream = "free"
    /\ frame_dt = 500
    /\ base_score = 100

UpdateState ==
    \E a \in SmAngles :
        /\ calls < MaxSmCalls
        /\ now' = now + frame_dt
        /\ state_machine' = update_state(state_machine, a, now')
        /\ fresh_machine' = update_state(fresh_machine, a, now')
        /\ ret_state' = state_machine'.current_state
        /\ calls' = calls + 1
        /\ op' = Call("update_state", a, NoPhase, None, now')
        /\ UNCHANGED <<rep_counter, frame_dt, base_score, devs, fed,
                       ret_rep, rep_data, rep_analyzer, stream, logged>>

UpdateStateNoPose ==
    /\ calls < MaxSmCalls
    /\ now' = now + frame_dt
    /\ state_machine' = update_state(state_machine, None, now')
    /\ fresh_machine' = update_state(fresh_machine, None, now')
    /\ ret_state' = state_machine'.current_state
    /\ calls' = calls + 1
    /\ op' = Call("update_state", None, NoPhase, None, now')
    /\ UNCHANGED <<rep_counter, frame_dt, base_score, devs, fed,
                   ret_rep, rep_data, rep_analyzer, stream, logged>>

ResetState ==
    /\ calls < MaxSmCalls
    /\ state_machine' = reset_state(state_machine, now)
    /\ fresh_machine' = SmInit(now)
    /\ calls' = calls + 1
    /\ op' = Call("reset_state", None, NoPhase, None, None)
    /\ UNCHANGED <<rep_counter, now, frame_dt, base_score, devs, fed,
                   ret_state, ret_rep, rep_data, rep_analyzer, stream, logged>>

NextSM == UpdateState \/ UpdateStateNoPose \/ ResetState

SpecSM == InitSM /\ [][NextSM]_vars

\* --------------------------------- samples that stay around the top cutoff
UpdateStateInBand ==
    \E a \in BandAngles :
        /\ calls < MaxSmCalls
        /\ now' = now + frame_dt
        /\ state_machine' = update_state(state_machine, a, now')
        /\ fresh_machine' = update_state(fresh_machine, a, now')
        /\ ret_state' = state_machine'.current_state
        /\ calls' = calls + 1
        /\ op' = Call("update_state", a, NoPhase, None, now')
        /\ UNCHANGED <<rep_counter, frame_dt, base_score, devs, fed,
                       ret_rep, rep_data, rep_analyzer, stream, logged>>

NextBand == UpdateStateInBand

SpecBand == InitSM /\ [][NextBand]_vars

\* ------------------------- samples that stay within one narrow window
\* the lowest angle of a session whose samples stay within a window
\* narrower than the hysteresis margin
WindowLow(s) ==
    CASE s = "window_96" -> 96
      [] s = "window_101" -> 101
      [] s = "window_120" -> 120
      [] s = "window_141" -> 141
      [] s = "window_143" -> 143
      [] s = "window_146" -> 146
      [] s = "window_148" -> 148

InitWindow ==
    /\ InitObjects
    /\ stream \in WindowStreams
    /\ frame_dt = 500
    /\ base_score = 100

UpdateStateInWindow ==
    \E a \in WindowLow(stream)..(WindowLow(stream) + transition_hysteresis - 1) :
        /\ calls < MaxSmCalls
        /\ now' = now + frame_dt
        /\ state_machine' = update_state(state_machine, a, now')
        /\ fresh_machine' = update_state(fresh_machine, a, now')
        /\ ret_state' = state_machine'.current_state
        /\ calls' = calls + 1
        /\ op' = Call("update_state", a, NoPhase, None, now')
        /\ UNCHANGED <<rep_counter, frame_dt, base_score, devs, fed,
                       ret_rep, rep_data, rep_analyzer, stream, logged>>

NextWindow == UpdateStateInWindow

SpecWindow == InitWindow /\ [][NextWindow]_vars

\* ------------------------------------------ the candidate phase by itself
\* determine_state_from_angle reads the current phase, the newest sample and
\* the one before it; a session here fixes a phase and a previous sample (or
\* none) and asks once for the candidate of a new sample.
InitCand ==
    /\ now = 0
    /\ \E phase \in MovementState :
       \E h \in {<<>>} \cup {<<p>> : p \in CandAngles} :
           state_machine = [SmInit(0) EXCEPT !.current_state = phase,
                                             !.angle_history = h]
    /\ fresh_machine = state_machine
    /\ rep_counter = RcInit
    /\ calls = 0
    /\ devs = 0
    /\ op = Call("init", None, NoPhase, None, None)
    /\ fed = <<>>
    /\ ret_state = READY
    /\ ret_rep = FALSE
    /\ rep_data = <<>>
    /\ rep_analyzer = RaInit(0)
    /\ logged = <<>>
    /\ stream = "free"
    /\ frame_dt = 500
    /\ base_score = 100

\* update_state's lines 66-69: the sample joins the history, then the
\* candidate is computed
DetermineState ==
    \E a \in CandAngles :
        /\ calls = 0
        /\ state_machine' = [state_machine EXCEPT !.angle_history =
                                DequeAppend(@, a, angle_history_maxlen)]
        /\ ret_state' = determine_state_from_angle(state_machine', a)
        /\ calls' = calls + 1
        /\ op' = Call("determine_state_from_angle", a, NoPhase, None, None)
        /\ UNCHANGED <<rep_counter, now, frame_dt, base_score, devs, fed,
                       ret_rep, rep_data, rep_analyzer, stream, logged,
                       fresh_machine>>

NextCand == DetermineState

SpecCand == InitCand /\ [][NextCand]_vars

\* ------------------------------------------------- the counter by itself
InitRC ==
    /\ InitObjects
    /\ stream = "required_sequence"
    /\ frame_dt \in DtSet
    /\ base_score \in ScoreSet

\* The nominal stream follows the required sequence with the session's
\* usual form score; any other input uses up one of the session's deviations.
Nominal(phase, score) ==
    /\ phase = required_sequence[rep_counter.sequence_index + 1]
    /\ score = base_score

CounterUpdate ==
    \E phase \in MovementState, score \in ScoreSet :
        /\ calls < MaxCalls
        /\ Nominal(phase, score) \/ devs < MaxDevs
        /\ now' = now + frame_dt
        /\ LET r == update(rep_counter, phase, AngleOf(phase), score, now')
           IN  /\ rep_counter' = r.self
               /\ ret_rep' = r.ret
               /\ rep_data' = r.rep_data
        /\ calls' = calls + 1
        /\ devs' = IF Nominal(phase, score) THEN devs ELSE devs + 1
        /\ op' = Call("update", None, phase, score, now')
        /\ fed' = Append(fed, [phase |-> phase, score |-> score, t |-> now'])
        /\ UNCHANGED <<state_machine, frame_dt, base_score, ret_state,
                       rep_analyzer, stream, logged, fresh_machine>>

ResetCounter ==
    /\ calls < MaxCalls
    /\ devs < MaxDevs
    /\ rep_counter' = reset_counter(rep_counter)
    /\ calls' = calls + 1
    /\ devs' = devs + 1
    /\ op' = Call("reset_counter", None, NoPhase, None, None)
    /\ fed' = <<>>
    /\ UNCHANGED <<state_machine, now, frame_dt, base_score,
                   ret_state, ret_rep, rep_data, rep_analyzer, stream, logged,
                   fresh_machine>>

NextRC == CounterUpdate \/ ResetCounter

SpecRC == InitRC /\ [][NextRC]_vars

\* ------------------------------------ the counter given push-ups back to back
\* the phases of one push-up, repeated by the stream
CyclePhases == <<TOP, DESCENDING, BOTTOM, ASCENDING>>

InitCycle ==
    /\ InitObjects
    /\ stream = "back_to_back"
    /\ frame_dt \in DtSet
    /\ base_score \in ScoreSet

\* The nominal stream repeats the four phases, one sample each, whatever the
\* counter expects; any other input uses up one of the session's deviations.
NominalCycle(phase, score) ==
    /\ phase = CyclePhases[(Len(fed) % Len(CyclePhases)) + 1]
    /\ score = base_score

CounterUpdateCycle ==
    \E phase \in MovementState, score \in ScoreSet :
        /\ calls < MaxCalls
        /\ NominalCycle(phase, score) \/ devs < MaxDevs
        /\ now' = now + frame_dt
        /\ LET r == update(rep_counter, phase, AngleOf(phase), score, now')
           IN  /\ rep_counter' = r.self
               /\ ret_rep' = r.ret
               /\ rep_data' = r.rep_data
        /\ calls' = calls + 1
        /\ devs' = IF NominalCycle(phase, score) THEN devs ELSE devs + 1
        /\ op' = Call("update", None, phase, score, now')
        /\ fed' = Append(fed, [phase |-> phase, score |-> score, t |-> now'])
        /\ UNCHANGED <<state_machine, frame_dt, base_score, ret_state,
                       rep_analyzer, stream, logged, fresh_machine>>

NextCycle == CounterUpdateCycle \/ ResetCounter

SpecCycle == InitCycle /\ [][NextCycle]_vars

\* ------------------------------------------------ the per-frame pipeline
\* the form score process_frame hands to the counter
frame_form_score == 100

InitE2E ==
    /\ InitObjects
    /\ stream = "e2e"
    /\ frame_dt \in E2EDtSet
    /\ base_score = frame_form_score

\* process_frame, from pose detection to the diagnostics log: start_time is
\* the clock at the start of the frame, and a frame without a pose touches
\* none of the three objects.
process_frame(pose_data) ==
    /\ now' = now + frame_dt
    /\ calls' = calls + 1
    /\ IF pose_data # None
       THEN LET start_time == now'
                elbow_angle == pose_data
                sm == update_state(state_machine, pose_data, now')
                current_state == sm.current_state
                r == update(rep_counter, current_state, elbow_angle,
                            frame_form_score, start_time)
                rep_completed == r.ret
            IN  /\ state_machine' = sm
                /\ fresh_machine' = update_state(fresh_machine, pose_data,
                                                 now')
                /\ ret_state' = current_state
                /\ rep_counter' = r.self
                /\ ret_rep' = rep_completed
                /\ rep_data' = r.rep_data
                /\ fed' = Append(fed, [phase |-> current_state,
                                       score |-> frame_form_score,
                                       t |-> start_time])
                /\ rep_analyzer' =
                       log_state_transition(rep_analyzer, current_state,
                                            elbow_angle, PoseConfidence,
                                            PoseKeypoints, rep_completed, now')
                /\ logged' = Append(logged, [phase |-> current_state,
                                             angle |-> elbow_angle,
                                             counted |-> rep_completed,
                                             t |-> now'])
                /\ op' = Call("process_frame", pose_data, current_state,
                              frame_form_score, start_time)
       ELSE /\ op' = Call("process_frame", None, NoPhase, None, now')
            /\ UNCHANGED <<state_machine, rep_counter, fed, ret_state,
                           ret_rep, rep_data, rep_analyzer, logged,
                           fresh_machine>>
    /\ UNCHANGED <<frame_dt, base_score, stream>>

ProcessFrame ==
    \E pose_data \in PipePoses \cup {E2EAngles[i] : i \in 1..Len(E2EAngles)} :
        /\ calls < Len(E2EAngles)
        /\ pose_data = E2EAngles[calls + 1] \/ devs < MaxDevs
        /\ devs' = IF pose_data = E2EAngles[calls + 1] THEN devs ELSE devs + 1
        /\ process_frame(pose_data)

NextE2E == ProcessFrame

SpecE2E == InitE2E /\ [][NextE2E]_vars

\* ------------------------------------------ the diagnostics engine by itself
\* The phase the n-th call of a session logs when it follows the stream:
\*   cycle   Ready, then Top, Descending, Bottom, Ascending over and over
\*   settle  Ready, one push-up, then Ready and Top in turn
\*   stuck   Ready, then Descending for ever
\*   hold    the cycle stream with every phase logged twice
RECURSIVE NominalPhase(_, _)
NominalPhase(s, n) ==
    CASE s = "cycle" ->
             IF n = 1 THEN READY
             ELSE <<TOP, DESCENDING, BOTTOM, ASCENDING>>[((n - 2) % 4) + 1]
      [] s = "settle" ->
             IF n <= 6 THEN NominalPhase("cycle", n)
             ELSE IF n % 2 = 1 THEN READY ELSE TOP
      [] s = "stuck" -> IF n = 1 THEN READY ELSE DESCENDING
      [] s = "hold" -> NominalPhase("cycle", (n + 1) \div 2)

InitRA ==
    /\ InitObjects
    /\ stream \in RaStreams
    /\ frame_dt \in RaDtSet
    /\ base_score = frame_form_score

\* One call of log_state_transition.  Logging another phase than the
\* stream's, or reporting a counted repetition, uses up a deviation.
LogTransition ==
    \E phase \in MovementState, counted \in BOOLEAN :
        LET cost == (IF phase = NominalPhase(stream, calls + 1) THEN 0 ELSE 1)
                    + (IF counted THEN 1 ELSE 0)
        IN  /\ calls < LongLen
            /\ now < MaxSessionTime
            /\ cost = 0 \/ (calls < DevWindow /\ devs + cost <= MaxLongDevs)
            /\ now' = now + frame_dt
            /\ rep_analyzer' =
                   log_state_transition(rep_analyzer, phase, AngleOf(phase),
                                        PoseConfidence, PoseKeypoints,
                                        counted, now')
            /\ logged' = Append(logged, [phase |-> phase,
                                         angle |-> AngleOf(phase),
                                         counted |-> counted,
                                         t |-> now'])
            /\ calls' = calls + 1
            /\ devs' = devs + cost
            /\ op' = Call("log_state_transition", AngleOf(phase), phase,
                          None, now')
            /\ UNCHANGED <<state_machine, rep_counter, frame_dt, base_score,
                           fed, ret_state, ret_rep, rep_data, stream,
                           fresh_machine>>

NextRA == LogTransition

SpecRA == InitRA /\ [][NextRA]_vars

\* ------------------------------------------------ a long pipeline session
\* The angle a session's stream gives its frame number n + 1: push-ups back
\* to back, a rest at the top followed by push-ups, push-ups that stop short
\* of the bottom cutoff, or push-ups that come back up short of the top cutoff
\* after a first frame that lets the machine into Top.
NominalAngle(s, n) ==
    IF s = "rest_at_top" /\ n < RestFrames
    THEN CycleAngles[1]
    ELSE IF s = "rest_at_top"
    THEN CycleAngles[((n + 1 - RestFrames) % Len(CycleAngles)) + 1]
    ELSE IF s = "shallow_bottom"
    THEN ShallowAngles[(n % Len(ShallowAngles)) + 1]
    ELSE IF s = "short_of_top" /\ n = 0
    THEN ShortAngles[1]
    ELSE IF s = "short_of_top"
    THEN ShortAngles[((n - 1) % Len(ShortAngles)) + 1]
    ELSE CycleAngles[(n % Len(CycleAngles)) + 1]

InitLong ==
    /\ InitObjects
    /\ stream \in LongStreams
    /\ frame_dt \in LongDtSet
    /\ base_score = frame_form_score

ProcessFrameLong ==
    \E pose_data \in PipePoses \cup SeqSet(CycleAngles) :
        LET nominal == NominalAngle(stream, calls)
        IN  /\ calls < LongLen
            /\ pose_data = nominal
               \/ (calls < DevWindow /\ devs < MaxLongDevs)
            /\ devs' = IF pose_data = nominal THEN devs ELSE devs + 1
            /\ process_frame(pose_data)

NextLong == ProcessFrameLong

SpecLong == InitLong /\ [][NextLong]_vars

\* --------------------------------- pipeline sessions of shallow push-ups
InitDepth ==
    /\ InitObjects
    /\ stream \in DepthStreams
    /\ frame_dt \in LongDtSet
    /\ base_score = frame_form_score

ProcessFrameDepth ==
    \E pose_data \in PipePoses \cup SeqSet(CycleAngles)
                    \cup SeqSet(ShallowAngles) \cup SeqSet(ShortAngles) :
        LET nominal == NominalAngle(stream, calls)
        IN  /\ calls < MaxCalls
            /\ pose_data = nominal \/ devs < MaxLongDevs
            /\ devs' = IF pose_data = nominal THEN devs ELSE devs + 1
            /\ process_frame(pose_data)

NextDepth == ProcessFrameDepth

SpecDepth == InitDepth /\ [][NextDepth]_vars

\* =============================================================== claims
\* ------------------------------------------------------ the phase machine
AdjacencyTable ==
    {<<READY, DESCENDING>>, <<READY, TOP>>,
     <<TOP, DESCENDING>>, <<TOP, READY>>,
     <<DESCENDING, BOTTOM>>, <<DESCENDING, ASCENDING>>,
     <<BOTTOM, ASCENDING>>, <<BOTTOM, DESCENDING>>,
     <<ASCENDING, TOP>>, <<ASCENDING, DESCENDING>>}

\* C1: whenever one update_state call changes the current phase from p to q,
\* the pair (p, q) is in the adjacency table; in particular no update takes
\* the machine from Ready to Bottom.
C1_OnlyAdjacentTransitions ==
    [][op'.name = "update_state"
       /\ state_machine'.current_state # state_machine.current_state
       => /\ <<state_machine.current_state, state_machine'.current_state>>
               \in AdjacencyTable
          /\ ~(state_machine.current_state = READY
                /\ state_machine'.current_state = BOTTOM)]_vars

\* an update has just taken the machine from Descending to Bottom, after
\* Ready -> Top -> Descending
C1_Witness ==
    /\ op.name = "update_state"
    /\ state_machine.current_state = BOTTOM
    /\ state_machine.state_frame_count = 1
    /\ Len(state_machine.state_history) = 3

\* C2: an update_state call whose angle is 0, or that has no pose data,
\* returns the current phase and leaves the whole machine (current phase,
\* frames in phase, angle history, transition log) unchanged.
C2_InvalidSampleIsNoOp ==
    [][op'.name = "update_state" /\ op'.pose \in {0, None}
       => /\ state_machine' = state_machine
          /\ ret_state' = state_machine.current_state]_vars

\* a zero-angle sample has just been given to a machine that is descending
C2_Witness ==
    /\ op.name = "update_state"
    /\ op.pose = 0
    /\ state_machine.current_state = DESCENDING
    /\ Len(state_machine.angle_history) >= 2

\* C9: while every sample since construction lies in 148..152, the phase
\* changes at most once: a change happens only while the transition log is
\* still empty, and it is logged.
C9_NoFlapAroundTopCutoff ==
    [][state_machine'.current_state # state_machine.current_state
       => /\ state_machine.state_history = <<>>
          /\ Len(state_machine'.state_history) = 1]_vars

\* six samples on both sides of the 150 cutoff were processed and the
\* machine sits in Top
C9_Witness ==
    /\ calls = MaxSmCalls
    /\ state_machine.current_state = TOP
    /\ 148 \in SeqSet(state_machine.angle_history)
    /\ 152 \in SeqSet(state_machine.angle_history)
    /\ state_machine.angle_history[Len(state_machine.angle_history)] = 148

\* ----------------------------------------------------------- the counter
\* The three validity gates, read off a record's own samples and times.
PassesGates(rec) ==
    /\ {TOP, DESCENDING, BOTTOM, ASCENDING} \subseteq SeqSet(rec.state_sequence)
    /\ 2000 <= rec.end_time - rec.start_time
    /\ rec.end_time - rec.start_time <= 10000
    /\ \/ Len(rec.form_scores) = 0
       \/ SumSeq(rec.form_scores) >= 60 * Len(rec.form_scores)

FedPhases == [i \in 1..Len(fed) |-> fed[i].phase]

\* C3: RepCounter.update returns true exactly when the call finalized a
\* repetition that passed every gate, that is exactly when valid_reps grew
\* by one and one record was appended to the history; when it returns false
\* valid_reps and the history are unchanged.
C3_ReturnsTrueIffValidRep ==
    [][op'.name = "update"
       => /\ ret_rep' <=> (rep_data' # <<>> /\ PassesGates(rep_data'[1]))
          /\ ret_rep' <=>
                (/\ rep_counter'.valid_reps = rep_counter.valid_reps + 1
                 /\ Len(rep_counter'.repetitions)
                        = Len(rep_counter.repetitions) + 1)
          /\ ret_rep' =>
                rep_counter'.repetitions
                    = Append(rep_counter.repetitions, rep_data'[1])
          /\ ~ret_rep' =>
                /\ rep_counter'.valid_reps = rep_counter.valid_reps
                /\ rep_counter'.repetitions = rep_counter.repetitions]_vars

\* an update has just returned true for the second repetition of a session
C3_Witness ==
    /\ op.name = "update"
    /\ ret_rep
    /\ rep_counter.valid_reps = 2

\* A fresh or reset counter was fed exactly Top, Descending, Bottom,
\* Ascending, Top, the samples spanning 2 to 10 s with every score >= 60.
C4_ExactCycleFed ==
    /\ Len(fed) = 5
    /\ FedPhases = <<TOP, DESCENDING, BOTTOM, ASCENDING, TOP>>
    /\ 2000 <= fed[5].t - fed[1].t
    /\ fed[5].t - fed[1].t <= 10000
    /\ \A i \in 1..5 : fed[i].score >= 60

\* C4: after exactly that cycle the last update returned true, valid_reps
\* is 1, the in-progress phase, angle and score buffers are empty and
\* sequence_index is 0.
C4_ExactCycleCountsOnce ==
    C4_ExactCycleFed
    => /\ ret_rep
       /\ rep_counter.valid_reps = 1
       /\ rep_counter.current_rep_states = <<>>
       /\ rep_counter.current_rep_angles = <<>>
       /\ rep_counter.current_rep_scores = <<>>
       /\ rep_counter.sequence_index = 0

\* the exact cycle was fed over exactly 2.0 s to a counter just constructed
C4_Witness ==
    /\ C4_ExactCycleFed
    /\ calls = 5
    /\ fed[5].t - fed[1].t = 2000

\* The call about to be made closes a cycle (the final Top is matched) whose
\* record fails the duration gate or the form-score gate.
ClosesFailingCycle ==
    /\ op'.name = "update"
    /\ rep_counter.sequence_index = 4
    /\ op'.phase = TOP
    /\ LET dur == op'.t - rep_counter.current_rep_start
           scores == Append(rep_counter.current_rep_scores, op'.score)
       IN  \/ dur < 2000
           \/ dur > 10000
           \/ SumSeq(scores) < 60 * Len(scores)

\* C6: when a cycle closes but its record fails a gate, update returns
\* false, valid_reps and the history are unchanged, and sequence_index, the
\* rep start time and the in-progress buffers are reset as after a valid
\* finalization.
C6_InvalidCycleDiscardedAndReset ==
    [][ClosesFailingCycle
       => /\ ret_rep' = FALSE
          /\ rep_counter'.valid_reps = rep_counter.valid_reps
          /\ rep_counter'.repetitions = rep_counter.repetitions
          /\ rep_counter'.sequence_index = 0
          /\ rep_counter'.current_rep_start = None
          /\ rep_counter'.current_rep_states = <<>>
          /\ rep_counter'.current_rep_angles = <<>>
          /\ rep_counter'.current_rep_scores = <<>>]_vars

\* a cycle of 0.5 s has just been closed and rejected
C6_Witness ==
    /\ op.name = "update"
    /\ rep_data # <<>>
    /\ rep_data[1].end_time = op.t
    /\ rep_data[1].end_time - rep_data[1].start_time = 500
    /\ ~ret_rep
    /\ rep_counter.sequence_index = 0

\* C7: total_reps counts every finalized cycle and valid_reps only the
\* gate-passing ones: after an exact Top, Descending, Bottom, Ascending, Top
\* cycle of 0.5 s with form scores >= 60 on a fresh counter the rep is
\* finalized, total_reps is 1 and valid_reps is 0.
C7_TotalCountsEveryFinalizedCycle ==
    (/\ Len(fed) = 5
     /\ FedPhases = <<TOP, DESCENDING, BOTTOM, ASCENDING, TOP>>
     /\ fed[5].t - fed[1].t = 500
     /\ \A i \in 1..5 : fed[i].score >= 60)
    => /\ rep_data # <<>>
       /\ get_rep_count(rep_counter) = 1
       /\ get_valid_rep_count(rep_counter) = 0

\* C8: every record in the history passes the three gates, valid_reps is
\* the number of records in the history, and except across reset_counter
\* the history only grows at its end.
C8_HistoryHoldsOnlyValidReps ==
    /\ [](/\ \A i \in 1..Len(rep_counter.repetitions) :
                PassesGates(rep_counter.repetitions[i])
          /\ rep_counter.valid_reps = Len(rep_counter.repetitions))
    /\ [][op'.name # "reset_counter"
          => /\ Len(rep_counter'.repetitions) >= Len(rep_counter.repetitions)
             /\ SubSeq(rep_counter'.repetitions, 1,
                       Len(rep_counter.repetitions))
                    = rep_counter.repetitions]_vars

\* the history holds two records, the second appended after the first
C8_Witness ==
    /\ Len(rep_counter.repetitions) = 2
    /\ rep_counter.repetitions[2].rep_number = 2
    /\ rep_counter.repetitions[1].end_time
           < rep_counter.repetitions[2].start_time

\* C10 as stated: the consistency score is exactly 100 whenever the history
\* holds fewer than two repetitions, with none as with one.
C10_ConsistencyIs100BelowTwoReps ==
    Len(rep_counter.repetitions) < 2
    => get_performance_stats(rep_counter).consistency_score = 100 * 100

\* C10 amended: the consistency score is exactly 100 when the history holds
\* exactly one repetition, and 0 when it holds none.
C10_ConsistencyWithOneOrNoRep ==
    /\ Len(rep_counter.repetitions) = 1
       => get_performance_stats(rep_counter).consistency_score = 100 * 100
    /\ Len(rep_counter.repetitions) = 0
       => get_performance_stats(rep_counter).consistency_score = 0

\* the history holds exactly one repetition
C10_Witness ==
    /\ Len(rep_counter.repetitions) = 1
    /\ rep_counter.valid_reps = 1
    /\ op.name = "update"

\* ---------------------------------------------------------- end to end
\* The nine samples of the scenario were fed at 0.3 s intervals.
E2EScenarioFed ==
    /\ calls = Len(E2EAngles)
    /\ devs = 0
    /\ frame_dt = 300

\* C5 as stated: the scenario yields exactly one valid repetition, whose
\* record has duration 2.4 s and average_form_score 100.
C5_ScenarioYieldsOneValidRep ==
    E2EScenarioFed
    => /\ rep_counter.valid_reps = 1
       /\ Len(rep_counter.repetitions) = 1
       /\ rep_counter.repetitions[1].duration = 2400
       /\ rep_counter.repetitions[1].average_form_score = 100 * 100

\* C5 amended: the scenario yields no valid repetition. The first sample
\* only serves the dwell, so the phases are Ready, Top, Descending, Bottom,
\* Bottom, Bottom, Ascending, Top, Top; the cycle opens on the 2nd sample
\* and closes on the 8th, and its record, of duration 1.8 s and
\* average_form_score 100, fails the duration gate; the 9th sample opens a
\* new rep window.
C5_ScenarioYieldsNoValidRep ==
    (devs = 0 /\ frame_dt = 300)
    => /\ calls = 8
          => /\ FedPhases = <<READY, TOP, DESCENDING, BOTTOM, BOTTOM, BOTTOM,
                              ASCENDING, TOP>>
             /\ rep_data # <<>>
             /\ rep_data[1].start_time = 600
             /\ rep_data[1].end_time = 2400
             /\ rep_data[1].duration = 1800
             /\ rep_data[1].average_form_score = 100 * 100
             /\ ~ret_rep
       /\ calls = 9
          => /\ fed[9].phase = TOP
             /\ rep_counter.valid_reps = 0
             /\ rep_counter.total_reps = 0
             /\ rep_counter.repetitions = <<>>
             /\ rep_counter.sequence_index = 1
             /\ rep_counter.current_rep_start = 2700

\* the whole scenario was fed and the machine ended in Top
C5_Witness ==
    /\ E2EScenarioFed
    /\ op.name = "process_frame"
    /\ op.pose = 179
    /\ state_machine.current_state = TOP

\* ------------------------------------------------- the diagnostics engine
\* the phases handed to log_state_transition so far, as the analyzer spells
\* them
LoggedPhases == [i \in 1..Len(logged) |-> Upper(logged[i].phase)]

\* the session so far is the stream Ready, Descending, Descending, ... of
\* 40 or more entries, none of them reported as counted
StuckStreamFed ==
    /\ Len(logged) >= 40
    /\ logged[1].phase = READY
    /\ \A i \in 2..Len(logged) : logged[i].phase = DESCENDING
    /\ \A i \in 1..Len(logged) : ~logged[i].counted

\* an analyzer whose open attempt was started with the session and holds the
\* given phases
WithAttemptHolding(self, sequence) ==
    LET a == _start_new_attempt(self, logged[1].t).current_attempt[1]
    IN  [self EXCEPT !.current_attempt =
            <<[a EXCEPT !.state_sequence = sequence,
                        !.duration = now - logged[1].t]>>]

\* C11 as stated: feeding Ready, Descending, Descending, ... (40 or more
\* entries, never Bottom) produces an attempt with that phase sequence that
\* is closed with failure_reason never_reached_bottom.
C11_StuckStreamClosesAsNeverReachedBottom ==
    StuckStreamFed =>
        \E i \in 1..Len(rep_analyzer.rep_attempts) :
            /\ rep_analyzer.rep_attempts[i].state_sequence = LoggedPhases
            /\ rep_analyzer.rep_attempts[i].failure_reason
                   = "never_reached_bottom"

\* C11, amended: feeding a fresh analyzer Ready, Descending, Descending, ...
\* (40 or more entries) produces no attempt at all, open or closed, and a
\* single transition record Ready -> Descending; only the failure
\* classification of an attempt holding that phase sequence is
\* never_reached_bottom.
C11_StuckStreamOpensNoAttempt ==
    StuckStreamFed =>
        /\ rep_analyzer.current_attempt = <<>>
        /\ rep_analyzer.rep_attempts = <<>>
        /\ rep_analyzer.attempt_counter = 0
        /\ Len(rep_analyzer.state_transitions) = 1
        /\ rep_analyzer.state_transitions[1].from_state = "READY"
        /\ rep_analyzer.state_transitions[1].to_state = "DESCENDING"
        /\ _analyze_failure(WithAttemptHolding(rep_analyzer, LoggedPhases))
               = "never_reached_bottom"

C11_Witness ==
    /\ StuckStreamFed
    /\ rep_analyzer.current_state = "DESCENDING"
    /\ Len(rep_analyzer.state_transitions) = 1

\* a step that is one call of log_state_transition, and that call's inputs
JustLogged == Len(logged') = Len(logged) + 1
LoggedCall == logged'[Len(logged')]
\* the call's phase differs from the phase logged before it
PhaseChanged ==
    /\ rep_analyzer.current_state # NoPhase
    /\ Upper(LoggedCall.phase) # rep_analyzer.current_state
FirstPhaseLogged == rep_analyzer.current_state = NoPhase
Last(s) == s[Len(s)]

\* the open attempt, or the attempt closed last when none is open, has got
\* the call's phase appended to what the open attempt held before the call
CallPhaseAppended ==
    LET sequence == Append(rep_analyzer.current_attempt[1].state_sequence,
                           Upper(LoggedCall.phase))
    IN  IF rep_analyzer'.current_attempt # <<>>
        THEN /\ rep_analyzer'.current_attempt[1].state_sequence = sequence
             /\ rep_analyzer'.rep_attempts = rep_analyzer.rep_attempts
        ELSE /\ Len(rep_analyzer'.rep_attempts)
                    = Len(rep_analyzer.rep_attempts) + 1
             /\ Last(rep_analyzer'.rep_attempts).state_sequence = sequence

\* C12 as stated: a call whose phase enters Ready or Top (it differs from the
\* previously logged phase, or is the first phase of the session) while no
\* attempt is active leaves an attempt open whose state_sequence starts with
\* that phase; every later logged phase change is appended to it in order.
C12_EnteringStartPhaseLeavesAttemptOpen ==
    [][ /\ ( /\ JustLogged
             /\ LoggedCall.phase \in {READY, TOP}
             /\ FirstPhaseLogged \/ PhaseChanged
             /\ rep_analyzer.current_attempt = <<>> )
           => /\ rep_analyzer'.current_attempt # <<>>
              /\ rep_analyzer'.current_attempt[1].state_sequence[1]
                     = Upper(LoggedCall.phase)
        /\ ( /\ JustLogged
             /\ PhaseChanged
             /\ rep_analyzer.current_attempt # <<>> )
           => CallPhaseAppended ]_vars

\* C12, amended: a call whose phase is Ready or Top and differs from the
\* previously logged phase, made while no attempt is active, starts an
\* attempt holding just that phase; the attempt is open after the call
\* unless the call reports a counted repetition, which closes it as
\* successful within the call.  The first phase logged in a session opens
\* no attempt.  Every later logged phase change is appended in order.
C12_StartPhaseChangeStartsAttempt ==
    [][ /\ ( /\ JustLogged
             /\ LoggedCall.phase \in {READY, TOP}
             /\ PhaseChanged
             /\ rep_analyzer.current_attempt = <<>> )
           => IF LoggedCall.counted
              THEN /\ rep_analyzer'.current_attempt = <<>>
                   /\ rep_analyzer'.rep_attempts # <<>>
                   /\ Len(rep_analyzer'.rep_attempts)
                          = Len(rep_analyzer.rep_attempts) + 1
                   /\ Last(rep_analyzer'.rep_attempts).state_sequence
                          = <<Upper(LoggedCall.phase)>>
                   /\ Last(rep_analyzer'.rep_attempts).was_counted
              ELSE /\ rep_analyzer'.current_attempt # <<>>
                   /\ rep_analyzer'.current_attempt[1].state_sequence
                          = <<Upper(LoggedCall.phase)>>
                   /\ rep_analyzer'.current_attempt[1].start_time = now'
                   /\ rep_analyzer'.rep_attempts = rep_analyzer.rep_attempts
        /\ (JustLogged /\ FirstPhaseLogged)
           => /\ rep_analyzer'.current_attempt = <<>>
              /\ rep_analyzer'.rep_attempts = <<>>
        /\ ( /\ JustLogged
             /\ PhaseChanged
             /\ rep_analyzer.current_attempt # <<>> )
           => CallPhaseAppended ]_vars

C12_Witness ==
    /\ rep_analyzer.current_attempt # <<>>
    /\ Len(rep_analyzer.current_attempt[1].state_sequence) >= 3
    /\ rep_analyzer.current_attempt[1].state_sequence[1] = "TOP"
    /\ \E i \in 1..Len(rep_analyzer.rep_attempts) :
           /\ rep_analyzer.rep_attempts[i].was_counted
           /\ Len(rep_analyzer.rep_attempts[i].state_sequence) = 1

\* the open attempt was closed by the call as a success: it is the new last
\* entry of the history, with the call's phase appended, was_counted set and
\* no failure_reason, and no attempt is open
ClosedAsCounted ==
    /\ rep_analyzer'.current_attempt = <<>>
    /\ Len(rep_analyzer'.rep_attempts) = Len(rep_analyzer.rep_attempts) + 1
    /\ SubSeq(rep_analyzer'.rep_attempts, 1, Len(rep_analyzer.rep_attempts))
           = rep_analyzer.rep_attempts
    /\ LET closed == Last(rep_analyzer'.rep_attempts)
           open == rep_analyzer.current_attempt[1]
       IN  /\ closed.attempt_id = open.attempt_id
           /\ closed.state_sequence
                  = Append(open.state_sequence, Upper(LoggedCall.phase))
           /\ closed.was_counted
           /\ closed.failure_reason = NoReason
           /\ closed.end_time = now'

C14_OverdueAttemptNeverSurvivesACall ==
    [][ ( /\ JustLogged
          /\ ~LoggedCall.counted
          /\ rep_analyzer.current_attempt # <<>>
          /\ \/ now' - rep_analyzer.current_attempt[1].start_time
                    > max_attempt_duration
             \/ Len(rep_analyzer.current_attempt[1].state_sequence)
                    > max_attempt_states )
        => /\ rep_analyzer'.current_attempt = <<>>
           /\ Len(rep_analyzer'.rep_attempts)
                  = Len(rep_analyzer.rep_attempts) + 1
           /\ LET closed == Last(rep_analyzer'.rep_attempts)
              IN  /\ closed.attempt_id
                         = rep_analyzer.current_attempt[1].attempt_id
                  /\ ~closed.was_counted
                  /\ closed.failure_reason # NoReason ]_vars

\* the failure rules in the order of the claim, each with whether it matches
\* a phase sequence and a duration in ms
FailureRules(sequence, duration) ==
    <<[reason |-> "incomplete_sequence", matches |-> Len(sequence) < 4],
      [reason |-> "never_reached_bottom",
       matches |-> \A i \in 1..Len(sequence) : sequence[i] # "BOTTOM"],
      [reason |-> "stuck_at_bottom",
       matches |-> Cardinality({i \in 1..Len(sequence) :
                                   sequence[i] = "BOTTOM"}) > 3],
      [reason |-> "never_ascended",
       matches |-> \A i \in 1..Len(sequence) : sequence[i] # "ASCENDING"],
      [reason |-> "too_slow", matches |-> duration > 12000],
      [reason |-> "insufficient_state_variety",
       matches |-> Cardinality({sequence[i] : i \in 1..Len(sequence)}) < 3],
      [reason |-> "pattern_mismatch", matches |-> TRUE]>>

FirstMatchingRule(sequence, duration) ==
    LET rules == FailureRules(sequence, duration)
        first == CHOOSE i \in 1..Len(rules) :
                     /\ rules[i].matches
                     /\ \A j \in 1..(i - 1) : ~rules[j].matches
    IN  rules[first].reason

\* C15: the failure_reason of every unsuccessfully closed attempt is the
\* first matching rule of: fewer than 4 phases, no Bottom, Bottom more than
\* 3 times, no Ascending, longer than 12 s, fewer than 3 distinct phases,
\* and pattern_mismatch otherwise.
C15_FailureReasonIsFirstMatchingRule ==
    \A i \in 1..Len(rep_analyzer.rep_attempts) :
        LET a == rep_analyzer.rep_attempts[i]
        IN  ~a.was_counted
            => a.failure_reason = FirstMatchingRule(a.state_sequence,
                                                    a.duration)

\* a session in which a later rule decided although an attempt was slow,
\* and one in which the duration decided
C15_Witness ==
    /\ \E i \in 1..Len(rep_analyzer.rep_attempts) :
           /\ ~rep_analyzer.rep_attempts[i].was_counted
           /\ rep_analyzer.rep_attempts[i].failure_reason = "too_slow"
    /\ \E i \in 1..Len(rep_analyzer.rep_attempts) :
           /\ ~rep_analyzer.rep_attempts[i].was_counted
           /\ rep_analyzer.rep_attempts[i].duration > 12000
           /\ rep_analyzer.rep_attempts[i].failure_reason
                  \in {"never_reached_bottom", "never_ascended"}

\* the claimed quality formula, in hundredths of a point: the score before
\* the clamp for a phase sequence and its angles
QualityFormula(sequence, angles) ==
    LET len == Len(sequence)
        k == Cardinality({p \in {"DESCENDING", "BOTTOM", "ASCENDING", "TOP"} :
                             \E i \in 1..len : sequence[i] = p})
        lo == CHOOSE x \in SeqSet(angles) : \A y \in SeqSet(angles) : x <= y
        hi == CHOOSE x \in SeqSet(angles) : \A y \in SeqSet(angles) : x >= y
        r == IF hi - lo > 60 THEN 2000
             ELSE IF hi - lo < 30 THEN -2000
             ELSE 0
        jitter == IF 2 * (len - 20) < 30 THEN 200 * (len - 20) ELSE 3000
    IN  10000
        - (IF len < 4 THEN 5000 ELSE 0)
        + 750 * k
        - (IF len > 20 THEN jitter ELSE 0)
        + r

Clamp(x, lo, hi) == IF x < lo THEN lo ELSE IF x > hi THEN hi ELSE x

\* C16: the quality_score of every closed attempt lies in [0, 100] and is
\* clamp(100 - 50 [len < 4] + 30 k / 4 - [len > 20] min(30, 2 (len - 20)) + r,
\* 0, 100), with k the number of Descending, Bottom, Ascending, Top present
\* and r = +20 for an angle range above 60, -20 below 30, else 0.
C16_QualityScoreIsClampedFormula ==
    \A i \in 1..Len(rep_analyzer.rep_attempts) :
        LET a == rep_analyzer.rep_attempts[i]
        IN  /\ a.quality_score >= 0
            /\ a.quality_score <= 10000
            /\ a.quality_score
                   = Clamp(QualityFormula(a.state_sequence, a.angle_sequence),
                           0, 10000)

\* an attempt of 21 to 34 phases closed below 100 points: the jitter
\* penalty is below its cap and not hidden by the clamp
C16_Witness ==
    \E i \in 1..Len(rep_analyzer.rep_attempts) :
        /\ Len(rep_analyzer.rep_attempts[i].state_sequence) > 20
        /\ Len(rep_analyzer.rep_attempts[i].state_sequence) < 35
        /\ rep_analyzer.rep_attempts[i].quality_score < 10000
        /\ rep_analyzer.rep_attempts[i].quality_score > 0

\* ------------------------------------------------------- bounded histories
\* the last n entries of s, in order
LastN(s, n) == SubSeq(s, IF Len(s) > n THEN Len(s) - n + 1 ELSE 1, Len(s))

\* Everything that arrived during a pipeline session, from the frames that
\* carried a pose: the angles given to the diagnostics engine, the valid
\* angles given to the phase machine, and the phase changes it made.
ArrivedAngles == [i \in 1..Len(logged) |-> logged[i].angle]
ValidAngle(a) == a # 0
ArrivedValidAngles == SelectSeq(ArrivedAngles, ValidAngle)
PhaseBefore(i) == IF i = 1 THEN READY ELSE logged[i - 1].phase
ArrivedFrames ==
    [i \in 1..Len(logged) |->
        [entry |-> <<logged[i].phase, logged[i].t>>,
         changed |-> logged[i].phase # PhaseBefore(i)]]
IsChange(f) == f.changed
ArrivedChanges ==
    LET c == SelectSeq(ArrivedFrames, IsChange)
    IN  [i \in 1..Len(c) |-> c[i].entry]

\* C17: the machine's angle history never holds more than 5 entries, its
\* transition log never more than 10, and the analyzer's angle buffer never
\* more than 50, and each holds exactly the most recent entries in arrival
\* order.
C17_HistoriesHoldMostRecentEntries ==
    /\ Len(state_machine.angle_history) <= 5
    /\ Len(state_machine.state_history) <= 10
    /\ Len(rep_analyzer.angle_buffer) <= 50
    /\ state_machine.angle_history = LastN(ArrivedValidAngles, 5)
    /\ state_machine.state_history = LastN(ArrivedChanges, 10)
    /\ rep_analyzer.angle_buffer = LastN(ArrivedAngles, 50)

\* all three buffers are full and have evicted entries
C17_Witness ==
    /\ Len(ArrivedValidAngles) > 5
    /\ Len(ArrivedChanges) > 10
    /\ Len(ArrivedAngles) > 50
    /\ Len(state_machine.angle_history) = 5
    /\ Len(state_machine.state_history) = 10
    /\ Len(rep_analyzer.angle_buffer) = 50
    /\ \E i \in 1..Len(logged) : logged[i].angle = 0

\* ------------------------------------------------ log_transition, per call
\* the time of the latest call so far that logged a phase change, the first
\* call of the session included
LoggedChangeAt(i) == i = 1 \/ logged[i].phase # logged[i - 1].phase
PreviousChangeTime ==
    LET k == CHOOSE i \in 1..Len(logged) :
                 /\ LoggedChangeAt(i)
                 /\ \A j \in (i + 1)..Len(logged) : ~LoggedChangeAt(j)
    IN  logged[k].t

RollingBuffersAppended ==
    /\ rep_analyzer'.state_buffer
           = LastN(Append(rep_analyzer.state_buffer, Upper(LoggedCall.phase)),
                   20)
    /\ rep_analyzer'.angle_buffer
           = LastN(Append(rep_analyzer.angle_buffer, LoggedCall.angle), 50)

\* C18: a call whose phase equals the previously logged phase appends
\* nothing to the transition log and leaves the last-transition time, the
\* open attempt and the attempt history unchanged, while still appending to
\* the rolling phase and angle buffers; a call whose phase differs from the
\* previously logged phase appends exactly one transition record, from the
\* previous phase to the new one, with duration_in_state the time since the
\* previous logged phase change.
C18_OnlyPhaseChangesAreLogged ==
    [][ /\ ( /\ JustLogged
             /\ Upper(LoggedCall.phase) = rep_analyzer.current_state )
           => /\ rep_analyzer'.state_transitions
                     = rep_analyzer.state_transitions
              /\ rep_analyzer'.last_state_change
                     = rep_analyzer.last_state_change
              /\ rep_analyzer'.current_attempt = rep_analyzer.current_attempt
              /\ rep_analyzer'.rep_attempts = rep_analyzer.rep_attempts
              /\ RollingBuffersAppended
        /\ (JustLogged /\ PhaseChanged)
           => /\ Len(rep_analyzer'.state_transitions)
                     = Len(rep_analyzer.state_transitions) + 1
              /\ SubSeq(rep_analyzer'.state_transitions, 1,
                        Len(rep_analyzer.state_transitions))
                     = rep_analyzer.state_transitions
              /\ LET record == Last(rep_analyzer'.state_transitions)
                 IN  /\ record.from_state = Upper(Last(logged).phase)
                     /\ record.to_state = Upper(LoggedCall.phase)
                     /\ record.timestamp = LoggedCall.t
                     /\ record.duration_in_state
                            = LoggedCall.t - PreviousChangeTime
              /\ RollingBuffersAppended ]_vars

\* a transition was logged after a phase had been repeated, while an attempt
\* was open
C18_Witness ==
    /\ \E i \in 2..Len(rep_analyzer.state_transitions) :
           rep_analyzer.state_transitions[i].duration_in_state = 2 * frame_dt
    /\ rep_analyzer.current_attempt # <<>>
    /\ Len(rep_analyzer.current_attempt[1].state_sequence) >= 2
    /\ Len(logged) > Len(rep_analyzer.state_transitions) + 1

\* ------------------------------------------------------ the session summary
\* the failure reasons of the attempts closed unsuccessfully, and how often
\* each occurred
FailedWith(reason) ==
    {i \in 1..Len(rep_analyzer.rep_attempts) :
        /\ ~rep_analyzer.rep_attempts[i].was_counted
        /\ rep_analyzer.rep_attempts[i].failure_reason = reason}
FailureReasonsSeen ==
    {rep_analyzer.rep_attempts[i].failure_reason :
        i \in {j \in 1..Len(rep_analyzer.rep_attempts) :
                  ~rep_analyzer.rep_attempts[j].was_counted}}
CountedAttempts ==
    {i \in 1..Len(rep_analyzer.rep_attempts) :
        rep_analyzer.rep_attempts[i].was_counted}
LoggedChanges ==
    {i \in 2..Len(logged) : logged[i].phase # logged[i - 1].phase}

\* C19: the summary reports rep_attempts = the number of closed attempts,
\* successful_reps = the number of them with was_counted,
\* success_rate = 100 * successful / attempts (0 when there are none),
\* total_transitions = the number of transition records, and
\* common_failure_patterns = at most 5 failure reasons with their exact
\* counts, in non-increasing count order.
C19_SummaryCountsAreExact ==
    LET summary == get_session_analysis(rep_analyzer, now)
        attempts == Len(rep_analyzer.rep_attempts)
        successful == Cardinality(CountedAttempts)
        patterns == summary.common_failure_patterns
    IN  /\ summary.rep_attempts = attempts
        /\ summary.successful_reps = successful
        /\ attempts = 0 => summary.success_rate = 0
        /\ attempts > 0 =>
               /\ summary.success_rate * attempts <= 100 * 100 * successful
               /\ 100 * 100 * successful
                      < (summary.success_rate + 1) * attempts
        /\ summary.total_transitions = Len(rep_analyzer.state_transitions)
        /\ summary.total_transitions = Cardinality(LoggedChanges)
        /\ Len(patterns) <= 5
        /\ Len(patterns) = IF Cardinality(FailureReasonsSeen) < 5
                           THEN Cardinality(FailureReasonsSeen) ELSE 5
        /\ \A i \in 1..Len(patterns) :
               /\ patterns[i].reason \in FailureReasonsSeen
               /\ patterns[i].count = Cardinality(FailedWith(patterns[i].reason))
               /\ \A j \in (i + 1)..Len(patterns) :
                      /\ patterns[i].count >= patterns[j].count
                      /\ patterns[i].reason # patterns[j].reason
        /\ \A reason \in FailureReasonsSeen :
               \/ \E i \in 1..Len(patterns) : patterns[i].reason = reason
               \/ \A i \in 1..Len(patterns) :
                      patterns[i].count >= Cardinality(FailedWith(reason))

\* the reason that failed first is listed second, behind a more frequent one
C19_Witness ==
    LET patterns ==
            get_session_analysis(rep_analyzer, now).common_failure_patterns
    IN  /\ Len(patterns) >= 2
        /\ patterns[1].count > patterns[2].count
        /\ \E i \in 1..Len(rep_analyzer.rep_attempts) :
               /\ rep_analyzer.rep_attempts[i].failure_reason
                      = patterns[2].reason
               /\ \A j \in 1..(i - 1) :
                      rep_analyzer.rep_attempts[j].was_counted

\* ------------------------------------------------- resetting the machine
\* C20: reset_state returns the machine to Ready with frames_in_phase = 0 and
\* empty angle history and transition log from any state, so that the phases
\* produced after the reset equal those of a freshly constructed machine
\* given the same samples.
C20_ResetMachineBehavesAsFresh ==
    /\ op.name = "reset_state"
       => /\ state_machine.current_state = READY
          /\ state_machine.state_frame_count = 0
          /\ state_machine.angle_history = <<>>
          /\ state_machine.state_history = <<>>
    /\ state_machine.current_state = fresh_machine.current_state
    /\ state_machine.state_frame_count = fresh_machine.state_frame_count
    /\ state_machine.angle_history = fresh_machine.angle_history
    /\ state_machine.state_history = fresh_machine.state_history
    /\ op.name = "update_state" => ret_state = fresh_machine.current_state

\* a reset has been made (it takes a call but no clock tick) after the
\* machine had been given samples, and the machine has changed phase twice
\* since
C20_Witness ==
    /\ calls * frame_dt > now
    /\ Len(state_machine.state_history) >= 2
    /\ state_machine.state_history[1][2] >= 4 * frame_dt
    /\ state_machine.current_state \in {DESCENDING, BOTTOM}

\* ------------------------------------------- the counter off its pattern
\* The call about to be made hands the counter a phase other than the pattern
\* element it expects.
OffPattern ==
    /\ op'.name = "update"
    /\ op'.phase # required_sequence[rep_counter.sequence_index + 1]

\* C21: false-start recovery. When the counter is mid-sequence
\* (sequence_index > 0) and receives Top while expecting another phase, then
\* after the call sequence_index is 1, the rep start time is the call's
\* timestamp, the in-progress buffers hold no sample received before the call,
\* and total_reps, valid_reps and the history are unchanged.
C21_FalseStartRestartsTheWindow ==
    [][OffPattern /\ rep_counter.sequence_index > 0 /\ op'.phase = TOP
       => /\ rep_counter'.sequence_index = 1
          /\ rep_counter'.current_rep_start = op'.t
          /\ rep_counter'.current_rep_states \in {<<>>, <<op'.phase>>}
          /\ rep_counter'.current_rep_angles \in {<<>>, <<AngleOf(op'.phase)>>}
          /\ rep_counter'.current_rep_scores \in {<<>>, <<op'.score>>}
          /\ rep_counter'.total_reps = rep_counter.total_reps
          /\ rep_counter'.valid_reps = rep_counter.valid_reps
          /\ rep_counter'.repetitions = rep_counter.repetitions
          /\ ret_rep' = FALSE]_vars

\* a Top has just arrived while Bottom was expected, after a Top and a
\* Descending had been buffered: the window restarts at this call
C21_Witness ==
    /\ op.name = "update"
    /\ Len(fed) >= 3
    /\ fed[Len(fed)].phase = TOP
    /\ fed[Len(fed) - 1].phase = DESCENDING
    /\ fed[Len(fed) - 2].phase = TOP
    /\ rep_counter.sequence_index = 1
    /\ rep_counter.current_rep_start = op.t
    /\ rep_counter.current_rep_states = <<>>

\* C22: when the received phase is neither the expected pattern element nor,
\* mid-sequence, Top, the call leaves sequence_index, the rep start time, the
\* rep counts and the history unchanged and appends exactly one entry to each
\* in-progress buffer; no amount of elapsed time makes such a call reset or
\* advance the counter.
C22_OtherPhasesOnlyBuffer ==
    [][OffPattern /\ ~(rep_counter.sequence_index > 0 /\ op'.phase = TOP)
       => /\ rep_counter'.sequence_index = rep_counter.sequence_index
          /\ rep_counter'.current_rep_start = rep_counter.current_rep_start
          /\ rep_counter'.total_reps = rep_counter.total_reps
          /\ rep_counter'.valid_reps = rep_counter.valid_reps
          /\ rep_counter'.repetitions = rep_counter.repetitions
          /\ rep_counter'.current_rep_states
                = Append(rep_counter.current_rep_states, op'.phase)
          /\ rep_counter'.current_rep_angles
                = Append(rep_counter.current_rep_angles, AngleOf(op'.phase))
          /\ rep_counter'.current_rep_scores
                = Append(rep_counter.current_rep_scores, op'.score)
          /\ ret_rep' = FALSE]_vars

\* two samples in a row have just been buffered without advancing a window
\* that by now has been open for longer than max_duration
C22_Witness ==
    /\ op.name = "update"
    /\ Len(fed) >= 6
    /\ rep_counter.sequence_index = 4
    /\ fed[Len(fed)].phase = ASCENDING
    /\ fed[Len(fed) - 1].phase = ASCENDING
    /\ fed[Len(fed) - 2].phase = ASCENDING
    /\ op.t - rep_counter.current_rep_start > max_duration
    /\ Len(rep_counter.current_rep_states) = 6

\* ------------------------------------------- what a finalized record holds
\* the last n samples the counter received
LastFed(n) == SubSeq(fed, Len(fed) - n + 1, Len(fed))

\* C23: every finalized record holds only samples of its own rep window: each
\* buffered phase and form score of the record was received between the
\* record's start_time and end_time, so no sample received while no window was
\* open enters a later record or its average form score.
C23_RecordHoldsOnlyItsWindow ==
    (op.name = "update" /\ rep_data # <<>>)
    => LET rec == rep_data[1]
           buffered == LastFed(Len(rec.state_sequence))
       IN  /\ rec.state_sequence
                = [i \in 1..Len(buffered) |-> buffered[i].phase]
           /\ rec.form_scores = [i \in 1..Len(buffered) |-> buffered[i].score]
           /\ \A i \in 1..Len(buffered) :
                  /\ rec.start_time <= buffered[i].t
                  /\ buffered[i].t <= rec.end_time

\* ------------------------------------------------ the pattern position
\* C30: between calls sequence_index is always in 0..4, after any sequence of
\* update and reset_counter calls, so the expected pattern element looked up
\* at sequence_index always exists; the index reaches 5 only inside the
\* finalizing call, which puts it back to 0.
C30_SequenceIndexStaysInPattern ==
    /\ rep_counter.sequence_index \in 0..(Len(required_sequence) - 1)
    /\ rep_counter.sequence_index + 1 \in DOMAIN required_sequence
    /\ (op.name = "update" /\ rep_data # <<>>)
           => rep_counter.sequence_index = 0

\* a cycle has just been closed and rejected, a second one after a first that
\* was counted: the index is back at 0 although nothing was appended
C30_Witness ==
    /\ op.name = "update"
    /\ rep_data # <<>>
    /\ ~ret_rep
    /\ rep_counter.valid_reps = 1
    /\ rep_counter.sequence_index = 0

\* ------------------------------------------------------ minimum dwell
\* The call about to be made is an update_state with a usable angle.
ValidAngleUpdate ==
    /\ op'.name = "update_state"
    /\ op'.pose # None
    /\ op'.pose # 0

\* C25: frames_in_phase (state_frame_count) is 0 after construction and after
\* reset_state, is left alone by an update without a usable angle, becomes 1 on
\* the update that enters a phase and grows by one on every other update with
\* a usable angle; a phase change is accepted only on an update that finds it
\* at or above min_state_frames, so the first usable sample after construction
\* or reset never changes the phase and zero-angle samples never count.
C25_PhaseChangeOnlyAfterMinimumDwell ==
    /\ state_machine.state_frame_count = 0
    /\ [][/\ op'.name = "reset_state"
             => state_machine'.state_frame_count = 0
          /\ (op'.name = "update_state" /\ ~ValidAngleUpdate)
             => /\ state_machine'.state_frame_count
                       = state_machine.state_frame_count
                /\ state_machine'.current_state = state_machine.current_state
          /\ ValidAngleUpdate
             => IF state_machine'.current_state # state_machine.current_state
                THEN /\ state_machine.state_frame_count >= min_state_frames
                     /\ state_machine'.state_frame_count = 1
                ELSE state_machine'.state_frame_count
                         = state_machine.state_frame_count + 1
          /\ (ValidAngleUpdate /\ state_machine.state_frame_count = 0)
             => state_machine'.current_state = state_machine.current_state
         ]_vars

\* a session with one reset: the first usable sample since the reset could
\* not change the phase, and the second has just changed it
C25_Witness ==
    /\ op.name = "update_state"
    /\ calls = 5
    /\ now = 4 * frame_dt
    /\ Len(state_machine.angle_history) = 2
    /\ Len(state_machine.state_history) = 1
    /\ state_machine.state_frame_count = 1
    /\ state_machine.current_state # READY

\* ------------------------------------------------- the candidate phase
\* The reference rule; previous is None when the history holds fewer than two
\* samples.
ReferenceCandidate(phase, angle, previous) ==
    LET top_cutoff == IF phase \in {TOP, READY} THEN 145 ELSE 150
        bottom_cutoff == IF phase = BOTTOM THEN 105 ELSE 100
        trend == angle - previous
    IN  CASE angle >= top_cutoff -> TOP
          [] angle < top_cutoff /\ angle <= bottom_cutoff -> BOTTOM
          [] OTHER ->
                IF previous = None THEN READY
                ELSE IF trend < -3 THEN DESCENDING
                ELSE IF trend > 3 THEN ASCENDING
                ELSE IF phase \in {ASCENDING, DESCENDING} THEN phase
                ELSE READY

\* the sample before the newest in the machine's angle history
PreviousSample ==
    LET h == state_machine.angle_history
    IN  IF Len(h) >= 2 THEN h[Len(h) - 1] ELSE None

\* C26: for every current phase, angle and previous angle the candidate phase
\* is the reference rule's: Top at or above the top cutoff (150, 145 while in
\* Top or Ready), else Bottom at or below the bottom cutoff (100, 105 while in
\* Bottom), else by the trend newest minus previous: Descending below -3,
\* Ascending above 3, otherwise the current phase if it is Ascending or
\* Descending and Ready if not; Ready in the mid band with fewer than two
\* samples.
C26_CandidateFollowsReferenceRule ==
    op.name = "determine_state_from_angle"
    => ret_state = ReferenceCandidate(state_machine.current_state, op.pose,
                                      PreviousSample)

\* in Ready, a sample exactly the movement threshold below the previous one:
\* no clear trend, the candidate is Ready
C26_Witness ==
    /\ op.name = "determine_state_from_angle"
    /\ state_machine.current_state = READY
    /\ state_machine.angle_history = <<123, 120>>
    /\ ret_state = READY

\* ------------------------------------------- frames without a usable angle
\* C24: in the per-frame pipeline a frame whose angle is the no-detection
\* sentinel 0 changes no core state: the phase machine, the counter's
\* sequence_index, rep start time, in-progress buffers and counts, and the
\* diagnostics buffers, transition log and attempts are the same after the
\* frame as before it.
C24_ZeroAngleFrameChangesNothing ==
    [][(op'.name = "process_frame" /\ op'.pose = 0)
       => /\ state_machine' = state_machine
          /\ rep_counter' = rep_counter
          /\ rep_analyzer'.state_buffer = rep_analyzer.state_buffer
          /\ rep_analyzer'.angle_buffer = rep_analyzer.angle_buffer
          /\ rep_analyzer'.state_transitions = rep_analyzer.state_transitions
          /\ rep_analyzer'.current_attempt = rep_analyzer.current_attempt
          /\ rep_analyzer'.rep_attempts = rep_analyzer.rep_attempts]_vars

\* -------------------------------------- counted reps and their attempts
\* C28: in the per-frame pipeline every attempt closed with was_counted = true
\* records the repetition that was counted: its state_sequence contains
\* Descending, Bottom and Ascending.
C28_CountedAttemptHoldsTheRep ==
    \A i \in 1..Len(rep_analyzer.rep_attempts) :
        rep_analyzer.rep_attempts[i].was_counted
        => {Upper(DESCENDING), Upper(BOTTOM), Upper(ASCENDING)}
               \subseteq SeqSet(rep_analyzer.rep_attempts[i].state_sequence)

\* C29: in the per-frame pipeline the number of attempts closed with
\* was_counted = true equals valid_reps after every frame: every update that
\* returns true closes exactly one attempt as successful on that frame, and
\* no attempt is closed as successful otherwise.
C29_CountedAttemptsMatchValidReps ==
    /\ [](Cardinality(CountedAttempts) = rep_counter.valid_reps)
    /\ [][op'.name = "process_frame"
          => IF op'.pose # None /\ ret_rep'
             THEN /\ Len(rep_analyzer'.rep_attempts)
                         = Len(rep_analyzer.rep_attempts) + 1
                  /\ Last(rep_analyzer'.rep_attempts).was_counted
                  /\ Last(rep_analyzer'.rep_attempts).end_time = op'.t
                  /\ rep_analyzer'.current_attempt = <<>>
             ELSE \A i \in 1..Len(rep_analyzer'.rep_attempts) :
                      rep_analyzer'.rep_attempts[i].was_counted
                      => /\ i <= Len(rep_analyzer.rep_attempts)
                         /\ rep_analyzer.rep_attempts[i].was_counted]_vars

\* a rep has just been counted on a frame that found no attempt open: the
\* attempt was opened and closed as successful by that frame
C29_Witness ==
    /\ op.name = "process_frame"
    /\ ret_rep
    /\ rep_counter.valid_reps = 1
    /\ Len(rep_analyzer.rep_attempts) = 2
    /\ ~rep_analyzer.rep_attempts[1].was_counted
    /\ rep_analyzer.rep_attempts[2].was_counted
    /\ rep_analyzer.rep_attempts[2].start_time = op.t

\* ------------------------------------------- samples in a narrow window
\* C27: from the initial state, for any sample sequence whose angles all lie
\* within a window narrower than the hysteresis margin (max - min < 5),
\* wherever the window sits relative to the cutoffs, the machine changes phase
\* at most once: it never alternates between two phases.
C27_NarrowWindowChangesPhaseAtMostOnce ==
    Len(state_machine.state_history) <= 1

\* --------------------------------------------- where a rep window starts
\* the positions of the Top samples the counter received before its last one
EarlierTops == {i \in 1..(Len(fed) - 1) : fed[i].phase = TOP}

\* the largest member of a non-empty set of numbers
Greatest(S) == CHOOSE x \in S : \A y \in S : y <= x

\* C31: the start time of every finalized record is the timestamp of the
\* latest Top sample received before the cycle's Descending was matched: every
\* further Top received at sequence_index 1 re-stamps the start time, so time
\* spent holding Top is left out of the rep's duration.
C31_RecordStartsAtLatestTop ==
    (op.name = "update" /\ rep_data # <<>>)
    => /\ EarlierTops # {}
       /\ rep_data[1].start_time = fed[Greatest(EarlierTops)].t
       /\ rep_data[1].duration = op.t - fed[Greatest(EarlierTops)].t
       /\ \E d \in (Greatest(EarlierTops) + 1)..(Len(fed) - 1) :
              fed[d].phase = DESCENDING

\* a record has just been finalized whose cycle began with Top held for two
\* samples: it starts at the second
C31_Witness ==
    /\ op.name = "update"
    /\ rep_data # <<>>
    /\ Len(fed) = 6
    /\ FedPhases = <<TOP, TOP, DESCENDING, BOTTOM, ASCENDING, TOP>>
    /\ rep_data[1].start_time = fed[2].t
    /\ rep_data[1].duration = 4 * frame_dt

\* ------------------------------------------------ windows and their gates
\* C35: between calls a rep window is open exactly when the counter is
\* mid-sequence: the rep start time is set if and only if sequence_index > 0,
\* so a finalization never finds the start time missing.
C35_WindowOpenIffMidSequence ==
    /\ (rep_counter.current_rep_start # None)
           <=> (rep_counter.sequence_index > 0)
    /\ (op.name = "update" /\ op.phase = TOP
          /\ rep_counter.sequence_index = 0)
           => /\ rep_data # <<>>
              /\ rep_data[1].start_time # None

\* a cycle has just been finalized by a counter that was reset earlier in
\* the session, after at least one sample: the record starts at the first
\* sample received since the reset
C35_Witness ==
    /\ op.name = "update"
    /\ rep_data # <<>>
    /\ Len(fed) = 5
    /\ calls >= 7
    /\ rep_counter.sequence_index = 0
    /\ rep_counter.current_rep_start = None
    /\ rep_data[1].start_time = fed[1].t

\* C36: the complete-cycle gate is never what rejects a finalized record: at
\* every finalization the buffered phases contain Top, Descending, Bottom and
\* Ascending and the score buffer is not empty, so validity is decided by the
\* duration and form-score gates alone.
C36_CycleGateNeverRejects ==
    (op.name = "update" /\ rep_data # <<>>)
    => LET rec == rep_data[1]
       IN  /\ {TOP, DESCENDING, BOTTOM, ASCENDING}
                  \subseteq SeqSet(rec.state_sequence)
           /\ Len(rec.form_scores) > 0
           /\ ret_rep <=>
                 /\ min_duration <= rec.duration
                 /\ rec.duration <= max_duration
                 /\ SumSeq(rec.form_scores)
                        >= min_form_score * Len(rec.form_scores)

\* a record has just been finalized after a false start, which cleared the
\* opening Top from the buffers: its only Top is the closing one
C36_Witness ==
    /\ op.name = "update"
    /\ rep_data # <<>>
    /\ rep_data[1].state_sequence = <<DESCENDING, BOTTOM, ASCENDING, TOP>>

\* ------------------------------------------------- push-ups back to back
\* A fresh or reset counter was fed exactly two push-ups back to back, one
\* sample per phase, the first cycle spanning 2 to 10 s, every score >= 60.
C32_TwoCyclesFed ==
    /\ Len(fed) = 9
    /\ FedPhases = <<TOP, DESCENDING, BOTTOM, ASCENDING, TOP,
                     DESCENDING, BOTTOM, ASCENDING, TOP>>
    /\ 2000 <= fed[5].t - fed[1].t
    /\ fed[5].t - fed[1].t <= 10000
    /\ \A i \in 1..9 : fed[i].score >= 60

\* C32: the Top that finalizes a repetition is never reused as the opening
\* Top of the next: after any finalization sequence_index is 0 and no window
\* is open, so of two push-ups fed back to back only the first is finalized
\* and the stream ends with sequence_index = 1.
C32_ClosingTopOpensNoWindow ==
    /\ (op.name = "update" /\ rep_data # <<>>)
           => /\ rep_counter.sequence_index = 0
              /\ rep_counter.current_rep_start = None
    /\ C32_TwoCyclesFed
           => /\ Len(rep_counter.repetitions) = 1
              /\ rep_counter.valid_reps = 1
              /\ rep_counter.repetitions[1].end_time = fed[5].t
              /\ rep_data = <<>>
              /\ rep_counter.sequence_index = 1
              /\ rep_counter.current_rep_start = fed[9].t

\* the two push-ups have been fed at 0.5 s a sample to a counter just
\* constructed
C32_Witness ==
    /\ C32_TwoCyclesFed
    /\ calls = 9
    /\ frame_dt = 500
    /\ rep_counter.sequence_index = 1

\* ------------------------------------------- the way back to the top
\* the trend of the sample the call about to be made carries: that sample
\* minus the newest in the history (None when the history is empty)
CallTrend ==
    LET h == state_machine.angle_history
    IN  IF Len(h) >= 1 THEN op'.pose - h[Len(h)] ELSE None

\* C34: while the machine is in Descending or Bottom a sample at or above the
\* top cutoff never changes the phase, so the machine stays there for as long
\* as such samples come; it reaches Top again only from Ascending (or Ready),
\* and it enters Ascending only on a mid-band sample with a clearly positive
\* trend.
C34_NoJumpToTopFromDescendingOrBottom ==
    [][op'.name = "update_state"
       => /\ (/\ state_machine.current_state \in {DESCENDING, BOTTOM}
              /\ op'.pose # None
              /\ op'.pose >= top_threshold)
             => state_machine'.current_state = state_machine.current_state
          /\ (/\ state_machine'.current_state = TOP
              /\ state_machine.current_state # TOP)
             => state_machine.current_state \in {ASCENDING, READY}
          /\ (/\ state_machine'.current_state = ASCENDING
              /\ state_machine.current_state # ASCENDING)
             => /\ state_machine.current_state \in {DESCENDING, BOTTOM}
                /\ op'.pose < top_threshold
                /\ op'.pose > bottom_threshold
                /\ state_machine.current_state = BOTTOM
                   => op'.pose > bottom_threshold + transition_hysteresis
                /\ CallTrend # None
                /\ CallTrend > movement_threshold]_vars

\* the machine is still in Descending after two samples in a row at or above
\* the top cutoff
C34_Witness ==
    /\ op.name = "update_state"
    /\ state_machine.current_state = DESCENDING
    /\ state_machine.state_frame_count >= 3
    /\ Len(state_machine.angle_history) >= 2
    /\ state_machine.angle_history[Len(state_machine.angle_history)] = 152
    /\ state_machine.angle_history[Len(state_machine.angle_history) - 1] = 152

\* ------------------------------------------------ the shape of an attempt
\* every attempt the analyzer holds, the closed ones first, then the open one
AllAttempts == rep_analyzer.rep_attempts \o rep_analyzer.current_attempt

\* C37: every attempt built through log_state_transition, open or closed,
\* has a state_sequence that starts with Ready or Top and never holds two
\* equal phases in a row; at most one attempt is open at a time, and an
\* attempt left open after a call holds at most 50 phases.
C37_AttemptsAreWellFormed ==
    /\ \A i \in 1..Len(AllAttempts) :
           LET sequence == AllAttempts[i].state_sequence
           IN  /\ Len(sequence) >= 1
               /\ sequence[1] \in {"READY", "TOP"}
               /\ \A k \in 1..(Len(sequence) - 1) :
                      sequence[k] # sequence[k + 1]
               /\ Len(AllAttempts[i].angle_sequence) = Len(sequence)
    /\ Len(rep_analyzer.current_attempt) <= 1
    /\ \A i \in 1..Len(AllAttempts), j \in 1..Len(AllAttempts) :
           i < j => AllAttempts[i].end_time # None
    /\ rep_analyzer.current_attempt # <<>>
           => Len(rep_analyzer.current_attempt[1].state_sequence) <= 50

\* an attempt is open that holds exactly 50 phases, the first of them Top
C37_Witness ==
    /\ rep_analyzer.current_attempt # <<>>
    /\ Len(rep_analyzer.current_attempt[1].state_sequence) = 50
    /\ rep_analyzer.current_attempt[1].state_sequence[1] = "TOP"

\* C38: through log_state_transition no closed attempt ever carries the
\* failure reason insufficient_state_variety: every attempt starts with Ready
\* or Top, and the rule is reached only by sequences that also hold Bottom and
\* Ascending, which then have three different phases.
C38_InsufficientVarietyUnreachable ==
    /\ "insufficient_state_variety" \notin FailureReasonsSeen
    /\ \A i \in 1..Len(rep_analyzer.rep_attempts) :
           LET sequence == rep_analyzer.rep_attempts[i].state_sequence
           IN  {"BOTTOM", "ASCENDING"} \subseteq SeqSet(sequence)
               => Cardinality(SeqSet(sequence)) >= 3

\* an attempt has been closed by the last rule of the chain: the variety rule
\* was evaluated for it and did not apply
C38_Witness ==
    FailedWith("pattern_mismatch") # {}

\* ------------------------------------------------ how deep a rep must go
\* the frames handed to the pipeline's objects from the time start to the
\* time end that carried a usable angle
UsableFramesBetween(start, end) ==
    {i \in 1..Len(logged) :
        /\ start <= logged[i].t
        /\ logged[i].t <= end
        /\ logged[i].angle # 0}

\* C33: in the per-frame pipeline with the default thresholds a repetition is
\* counted only if, between the record's start_time and end_time, some usable
\* sample had angle <= 100 (the un-raised bottom cutoff) and the finalizing
\* sample had angle >= 150 (the un-lowered top cutoff): a shallow movement
\* that never reaches the bottom cutoff is never counted.
C33_CountedRepReachedBothCutoffs ==
    (op.name = "process_frame" /\ op.pose # None /\ ret_rep)
    => LET rec == rep_data[1]
       IN  /\ rec.end_time = op.t
           /\ op.pose >= 150
           /\ \E i \in UsableFramesBetween(rec.start_time, rec.end_time) :
                  logged[i].angle <= 100
           /\ \A i \in 1..Len(rep_counter.repetitions) :
                  \E k \in UsableFramesBetween(
                               rep_counter.repetitions[i].start_time,
                               rep_counter.repetitions[i].end_time) :
                      logged[k].angle <= 100

\* a push-up down to 95 and back to 170 has just been counted
C33_Witness ==
    /\ op.name = "process_frame"
    /\ ret_rep
    /\ stream = "cycle_angles"
    /\ op.pose = 170
    /\ \E i \in UsableFramesBetween(rep_data[1].start_time,
                                    rep_data[1].end_time) :
           logged[i].angle = 95

\* a push-up down to 103 and back to 170 has been seen as Top, Descending,
\* Ascending, Top and was not counted
C33_ShallowWitness ==
    /\ stream = "shallow_bottom"
    /\ devs = 0
    /\ calls = 9
    /\ rep_counter.valid_reps = 0
    /\ rep_counter.sequence_index = 1

====
